---- MODULE Spec2Model ----
(***************************************************************************)
(* go-plugger: the v3 plugin group (PluginGroup[T]), its placement         *)
(* resolver (sort + move), its read/write lock protocol (lock/unlock) and  *)
(* the type-keyed registry (Group[T]).                                     *)
(*                                                                         *)
(* Strings are sequences of one-character strings, compared byte-wise as   *)
(* Go compares them.  Slice indices are Go's 0-based indices; a TLA+       *)
(* sequence s holds the Go element s[i] at s[i+1].                         *)
(***************************************************************************)
EXTENDS Integers, Sequences, FiniteSets, TLC

\* ------------------------------------------------------------------ bounds
\* longest list handed to the resolver in SpecSort
MaxSortLen == 3
\* goroutines calling into the package
NumThreads == 2
\* calls of group methods started in one behaviour of Spec
MaxCalls == 4
\* calls of Group[T]() started in one behaviour of SpecRegistry
MaxLookups == 4
\* symbol types T looked up in SpecRegistry
NumTypes == 2
\* SpecHeap: the calls of one run, the longest list
MaxHeapOps == 6
MaxHeapLen == 3
\* SpecV0: the calls of one run
MaxV0Ops == 6
\* SpecRegistry: method calls on the groups, and entries per group
MaxUses == 3
MaxUseLen == 2
\* SpecNamed: the calls of one run
MaxNamedOps == 4
\* SpecMove: the longest slice move is applied to, and the number of its values
MaxMoveLen == 3
\* SpecCommute: the entries the two runs register
MaxEntries == 3
\* SpecAgree: the longest list both resolvers are run on
MaxAgreeLen == 3
\* SpecTwin: the calls made on the lazy and the eager group
MaxTwinOps == 4

VARIABLES
  ordered,    \* g.ordered
  symbols,    \* g.symbols
  mu,         \* g.mu: [w: the goroutine holding the write lock or 0, r: the read lock holders]
  pc,         \* where each goroutine is inside a group method
  sym,        \* Register: the local Symbol s of each goroutine
  ret,        \* reader methods: the value about to be returned
  stash,      \* the GroupStash the last Backup returned
  kindT,      \* reflect kind of the group's type parameter T
  args,       \* Register: what each goroutine's call was handed, and its panic
  calls,      \* group method calls started so far
  live,       \* history: symbols whose Register returned since the last Clear/Restore
  episode,    \* history: the last write that returned, and the runs of g.sort() since
  srt,        \* SpecSort: one run of g.sort(), iteration by iteration
  groups,     \* the registry map: symbol type -> *PluginGroup, 0 is nil
  groupsmu,   \* the goroutine holding groupsmu, 0 when unlocked
  heap,       \* number of PluginGroup objects allocated so far
  gpc,        \* where each goroutine is inside Group[T]()
  glocal,     \* Group[T](): each goroutine's t and local variable group
  lookups,    \* calls of Group[T]() started so far
  returned,   \* history: the objects Group[T]() has returned, per type
  use,        \* each goroutine's call of a method on a group Group[T]() returned
  uses,       \* such calls started so far
  gmem,       \* SpecHeap: a v3 group with the backing arrays of its slices
  v0,         \* SpecV0: the v0 registry, one group with its backing arrays
  named,      \* SpecNamed: the string-keyed registry of v0 or v2, its groups as objects
  dyn,        \* SpecDyn: one call of dyn.Discover on a directory tree
  calc        \* pure functions applied to inputs drawn in Init

groupVars == <<ordered, symbols, mu, pc, sym, ret, stash, kindT, args, calls, live>>
registryVars == <<groups, groupsmu, heap, gpc, glocal, lookups, returned, use, uses>>
heapVars == <<gmem, v0, named, dyn, calc>>
vars == <<groupVars, episode, srt, registryVars, heapVars>>

Threads == 1..NumThreads

\* ----------------------------------------------------------------- strings
\* byte value of the characters the model uses (Go compares strings byte-wise)
Ord(c) ==
  CASE c = "." -> 46
    [] c = "/" -> 47
    [] c = "<" -> 60
    [] c = ">" -> 62
    [] c = "a" -> 97
    [] c = "b" -> 98
    [] c = "c" -> 99
    [] c = "x" -> 120
    [] c = "z" -> 122

\* Go's x < y on strings: lexicographic, byte by byte
RECURSIVE StrLess(_, _)
StrLess(x, y) ==
  IF y = <<>> THEN FALSE
  ELSE IF x = <<>> THEN TRUE
  ELSE IF Ord(Head(x)) < Ord(Head(y)) THEN TRUE
  ELSE IF Ord(Head(x)) > Ord(Head(y)) THEN FALSE
  ELSE StrLess(Tail(x), Tail(y))

\* strings.HasPrefix
HasPrefix(s, prefix) ==
  /\ Len(s) >= Len(prefix)
  /\ SubSeq(s, 1, Len(prefix)) = prefix

\* plugin names the model registers, and a name that is never registered
PluginNames == {<<"a">>, <<"b">>, <<"c">>}
Absent == <<"z">>

\* the names placements refer to
Anchors == {<<"a">>, <<"c">>, Absent}

\* placement hints: none, front, back, before/after a named plugin
Placements ==
  {<<>>, <<"<">>, <<">">>}
    \cup {<<"<">> \o n : n \in Anchors}
    \cup {<<">">> \o n : n \in Anchors}

\* ------------------------------------------------------------------- move
\* move without the final "s[to] = symbol" of the backward branch
moveDropsSymbol(s, from, to) ==
  IF from = to THEN s
  ELSE
    LET symbol == s[from + 1] IN
    IF from < to
    THEN LET to2 == to - 1 IN
         [k \in 1..Len(s) |->
            IF k - 1 >= from /\ k - 1 < to2 THEN s[k + 1]
            ELSE IF k - 1 = to2 THEN symbol
            ELSE s[k]]
    ELSE [k \in 1..Len(s) |->
            IF k - 1 > to /\ k - 1 <= from THEN s[k - 1]
            ELSE s[k]]

\* move without the "to--" of the forward branch (a store past the end left out)
moveNoDecrement(s, from, to) ==
  IF from = to THEN s
  ELSE
    LET symbol == s[from + 1] IN
    IF from < to
    THEN [k \in 1..Len(s) |->
            IF k - 1 >= from /\ k - 1 < to /\ k + 1 <= Len(s) THEN s[k + 1]
            ELSE IF k - 1 = to THEN symbol
            ELSE s[k]]
    ELSE [k \in 1..Len(s) |->
            IF k - 1 > to /\ k - 1 <= from THEN s[k - 1]
            ELSE IF k - 1 = to THEN symbol
            ELSE s[k]]

\* move(s, from, to): slide the element at index from to index to
move(s, from, to) ==
  IF from = to THEN s
  ELSE
    LET symbol == s[from + 1] IN
    IF from < to
    THEN LET to2 == to - 1 IN
         [k \in 1..Len(s) |->
            IF k - 1 >= from /\ k - 1 < to2 THEN s[k + 1]
            ELSE IF k - 1 = to2 THEN symbol
            ELSE s[k]]
    ELSE [k \in 1..Len(s) |->
            IF k - 1 > to /\ k - 1 <= from THEN s[k - 1]
            ELSE IF k - 1 = to THEN symbol
            ELSE s[k]]

\* ------------------------------------------------------------------- sort
\* the less function with its operands swapped
lessReversed(x, y) == StrLess(y.Plugin, x.Plugin)

\* the less function handed to sort.Slice
less(x, y) == StrLess(x.Plugin, y.Plugin)

\* sort.Slice(g.symbols, less): g.symbols rearranged so that no element is
\* less than one before it.  sort.Slice is not stable: every such
\* arrangement is an outcome.
SortSlice(s) ==
  LET n == Len(s)
      bij == {f \in [1..n -> 1..n] : \A i, j \in 1..n : i # j => f[i] # f[j]}
      arr(f) == [k \in 1..n |-> s[f[k]]]
  IN {arr(f) : f \in {g \in bij :
        \A i, j \in 1..n : i < j => ~less(s[g[j]], s[g[i]])}}

\* sort.Slice on fewer than 12 elements is an insertion sort: the one
\* arrangement of SortSlice(s) that keeps elements of equal name in the
\* order they have in s
insertionSort(s) ==
  LET n == Len(s)
      bij == {f \in [1..n -> 1..n] : \A i, j \in 1..n : i # j => f[i] # f[j]}
      g == CHOOSE f \in bij :
             \A i, j \in 1..n : i < j =>
               \/ less(s[f[i]], s[f[j]])
               \/ (~less(s[f[j]], s[f[i]]) /\ f[i] < f[j])
  IN [k \in 1..n |-> s[g[k]]]

\* the index search "for idx, sym = range syms { if sym.Plugin == ... }":
\* the first index holding the name, the last index when none holds it
findIdx(syms, name) ==
  IF \E i \in 1..Len(syms) : syms[i].Plugin = name
  THEN (CHOOSE i \in 1..Len(syms) :
          /\ syms[i].Plugin = name
          /\ \A j \in 1..(i - 1) : syms[j].Plugin # name) - 1
  ELSE IF Len(syms) = 0 THEN 0 ELSE Len(syms) - 1

\* the anchor search with pos reset to the front when no element carries the name
anchorPosMissingToFront(syms, name, pos, after) ==
  IF \E i \in 1..Len(syms) : syms[i].Plugin = name
  THEN findIdx(syms, name) + (IF after THEN 1 ELSE 0)
  ELSE 0

\* the anchor search taking "pos = i + 1" in the "<" branch too
anchorPosAlwaysAfter(syms, name, pos, after) ==
  IF \E i \in 1..Len(syms) : syms[i].Plugin = name
  THEN findIdx(syms, name) + 1
  ELSE pos

\* the anchor search "for i, p := range symbols { if before == p.Plugin ... }":
\* the index of the first element carrying the name (one more for ">"), pos
\* unchanged when no element carries it
anchorPos(syms, name, pos, after) ==
  IF \E i \in 1..Len(syms) : syms[i].Plugin = name
  THEN findIdx(syms, name) + (IF after THEN 1 ELSE 0)
  ELSE pos

\* the position the placement of symbol asks for, idx when it asks for none
targetPos(syms, symbol, idx) ==
  LET pos0 == idx
      pos1 == IF HasPrefix(symbol.Placement, <<"<">>)
              THEN LET before == Tail(symbol.Placement) IN
                   IF before = <<>> THEN 0
                   ELSE anchorPos(syms, before, pos0, FALSE)
              ELSE pos0
      pos2 == IF HasPrefix(symbol.Placement, <<">">>)
              THEN LET after == Tail(symbol.Placement) IN
                   IF after = <<>> THEN Len(syms)
                   ELSE anchorPos(syms, after, pos1, TRUE)
              ELSE pos1
  IN pos2

\* one iteration of the loop over g.symbols
sortStep(syms, symbol) ==
  LET idx == findIdx(syms, symbol.Plugin)
  IN move(syms, idx, targetPos(syms, symbol, idx))

\* the loop over the base-sorted g.symbols from its i-th element on
RECURSIVE sortLoop(_, _, _)
sortLoop(gsymbols, syms, i) ==
  IF i > Len(gsymbols) THEN syms
  ELSE sortLoop(gsymbols, sortStep(syms, gsymbols[i]), i + 1)

\* g.sort(): the lists it can leave in g.symbols
sort(s) == {sortLoop(b, b, 1) : b \in SortSlice(s)}

\* ------------------------------------------------------------ Symbol[T]
NilSym == 0
NoSymbol == [S |-> NilSym, Plugin |-> <<>>, Placement |-> <<>>]

\* Validate without its nil checks
ValidateIgnoresNil(kind, s) == kind \notin {"func", "interface"}

\* Symbol[T].Validate: does it panic?
ValidatePanics(kind, s) ==
  CASE kind = "func" -> s.S = NilSym
    [] kind = "interface" -> s.S = NilSym
    [] OTHER -> TRUE

\* Symbol[T].complete: does it panic?  caller is what runtimeCaller gave:
\* ok and the base name of the directory of the caller's file
completePanics(s, caller) ==
  IF s.Plugin # <<>> THEN FALSE
  ELSE \/ ~caller.ok
       \/ caller.dir \in {<<>>, <<".">>, <<"/">>}

\* Symbol[T].complete: the symbol it leaves
complete(s, caller) ==
  IF s.Plugin # <<>> THEN s ELSE [s EXCEPT !.Plugin = caller.dir]

\* the panic that ends Register before its options are applied: Validate's,
\* else complete's, "" when neither panics
panicOf(kind, s, caller) ==
  IF ValidatePanics(kind, s)
  THEN (IF kind \in {"func", "interface"}
        THEN "symbol must not be nil"
        ELSE "symbol must be func or interface")
  ELSE IF completePanics(s, caller)
  THEN (IF ~caller.ok
        THEN "unable to discover caller for discovering plugin name"
        ELSE "cannot determine plugin name")
  ELSE ""

\* a RegisterOption applied to the symbol: WithPlugin, WithPlacement
applyOption(s, option) ==
  CASE option.opt = "WithPlugin" -> [s EXCEPT !.Plugin = option.arg]
    [] option.opt = "WithPlacement" -> [s EXCEPT !.Placement = option.arg]

RECURSIVE applyOptions(_, _)
applyOptions(s, opts) ==
  IF opts = <<>> THEN s
  ELSE applyOptions(applyOption(s, Head(opts)), Tail(opts))

\* ------------------------------------------------- PluginGroup[T] methods
\* a group that starts out with ordered set
ZeroGroupOrdered == [ordered |-> TRUE, symbols |-> <<>>]

\* the zero PluginGroup / GroupStash
ZeroGroup == [ordered |-> FALSE, symbols |-> <<>>]

\* Register without "g.ordered = false"
RegisterKeepsOrdered(g, s) ==
  [ordered |-> g.ordered, symbols |-> Append(g.symbols, s)]

\* Register assigning the new symbol instead of appending it
RegisterOverwrites(g, s) == [ordered |-> FALSE, symbols |-> <<s>>]

\* Register, under the write lock
Register(g, s) == [ordered |-> FALSE, symbols |-> Append(g.symbols, s)]

\* Clear without "g.ordered = false"
ClearKeepsOrdered(g) == [ordered |-> g.ordered, symbols |-> <<>>]

\* Clear, under the write lock
Clear(g) == [ordered |-> FALSE, symbols |-> <<>>]

\* Backup, under the read lock
Backup(g) == [ordered |-> g.ordered, symbols |-> g.symbols]

\* Restore with "g.ordered = false" for "g.ordered = s.ordered"
RestoreMarksDirty(g, s) == [ordered |-> FALSE, symbols |-> s.symbols]

\* Restore, under the write lock
Restore(g, s) == [ordered |-> s.ordered, symbols |-> s.symbols]

\* the loop body of lock() sorting whatever g.ordered says
lockIfAlways(g) == TRUE

\* "if !g.ordered" in the loop body of lock(), under the write lock
lockIf(g) == ~g.ordered

\* the body of the loop in lock(), under the write lock: the groups it can leave
lockSort(g) ==
  IF lockIf(g)
  THEN {[ordered |-> TRUE, symbols |-> r] : r \in sort(g.symbols)}
  ELSE {g}

\* a loop in lock() that never ends
lockLoopForever(g) == TRUE

\* the condition of the loop in lock()
lockLoop(g) == ~g.ordered

\* lock() with "if" for "for": no second look at g.ordered
lockAfterRelockNoRecheck == "locked"

\* where lock() continues after the RLock that ends an iteration
lockAfterRelock == "lock_for"

\* Symbols()
Symbols(g) == [i \in 1..Len(g.symbols) |-> g.symbols[i].S]

\* PluginsSymbols()
PluginsSymbols(g) == g.symbols

\* PluginSymbol returning the last symbol of the named plugin
PluginSymbolLast(g, name) ==
  IF \E i \in 1..Len(g.symbols) : g.symbols[i].Plugin = name
  THEN g.symbols[CHOOSE i \in 1..Len(g.symbols) :
                   /\ g.symbols[i].Plugin = name
                   /\ \A j \in (i + 1)..Len(g.symbols) : g.symbols[j].Plugin # name].S
  ELSE NilSym

\* PluginSymbol(name)
PluginSymbol(g, name) ==
  IF \E i \in 1..Len(g.symbols) : g.symbols[i].Plugin = name
  THEN g.symbols[findIdx(g.symbols, name) + 1].S
  ELSE NilSym

\* Plugins()
Plugins(g) == [i \in 1..Len(g.symbols) |-> g.symbols[i].Plugin]

\* the reflect kind of the symbol value S held by a group of kind T; of the
\* values of an interface type, 1 is a pointer and 2 a struct
ValueKind(kind, S) ==
  IF S = NilSym THEN "invalid"
  ELSE IF kind = "func" THEN "func"
  ELSE IF S = 1 THEN "ptr" ELSE "struct"

\* reflect.ValueOf(symbol.S).Pointer() panics unless the value is a pointer,
\* func, chan, map, slice or unsafe pointer
PointerPanics(k) == k \notin {"ptr", "func", "chan", "map", "slice", "unsafeptr"}

\* String(): does the loop over g.symbols panic?
StringPanics(g, kind) ==
  \E i \in 1..Len(g.symbols) : PointerPanics(ValueKind(kind, g.symbols[i].S))

\* runtime.FuncForPC(...).Name() of a symbol value
FuncName(S) == IF S = 1 THEN "fn1" ELSE IF S = 2 THEN "fn2" ELSE "nil"

\* String(): what the loop over g.symbols writes to the strings.Builder
RECURSIVE StringFrom(_, _)
StringFrom(s, idx) ==
  IF idx >= Len(s) THEN <<>>
  ELSE (IF idx > 0 THEN <<",">> ELSE <<>>)
         \o <<"\"">> \o s[idx + 1].Plugin \o <<"\":", FuncName(s[idx + 1].S)>>
         \o StringFrom(s, idx + 1)

\* String(): the text, character by character where the model spells names
String(g, kind) ==
  <<"PluginGroup[", kind, "]: [">> \o StringFrom(g.symbols, 0) \o <<"]">>

\* ---------------------------------------------------------- sync.RWMutex
\* RLock returns once no goroutine holds the write lock
canRLock(m) == m.w = 0

\* Lock returns once no goroutine holds the lock in either mode
canLock(m) == m.w = 0 /\ m.r = {}

\* ----------------------------------------------------------------- inputs
\* reflect kinds of the type parameter T of the group: a function type, an
\* interface type, a type that is neither
Kinds == {"func", "interface", "other"}

\* the symbol values handed to Register: nil and two functions
RegValues == {NilSym, 1, 2}

\* what runtime.Caller gives Register: failure, a file in directory a, a file
\* whose directory has no name
Callers ==
  { [ok |-> FALSE, dir |-> <<>>],
    [ok |-> TRUE, dir |-> <<"a">>],
    [ok |-> TRUE, dir |-> <<".">>] }

WithPlugin(name) == [opt |-> "WithPlugin", arg |-> name]
WithPlacement(placement) == [opt |-> "WithPlacement", arg |-> placement]

\* the option lists handed to Register
OptionLists ==
  { <<>>,
    <<WithPlugin(<<"b">>), WithPlacement(<<"<">>)>>,
    <<WithPlacement(<<">", "b">>)>>,
    <<WithPlugin(<<>>)>> }

\* the names asked of PluginSymbol
LookupNames == {<<"a">>, <<"b">>, Absent}

NoRet == [op |-> "", val |-> <<>>]

\* no Register call in progress
NoArgs ==
  [symbol |-> NilSym, caller |-> [ok |-> FALSE, dir |-> <<>>], opts |-> <<>>,
   panic |-> ""]

\* the group as a record
G == [ordered |-> ordered, symbols |-> symbols]

SetG(g) ==
  /\ ordered' = g.ordered
  /\ symbols' = g.symbols

\* ------------------------------------------------- slices and their arrays
\* a slice header: the backing array (0 for a nil slice) and the length; the
\* capacity is the length of the array
NilSlice == [arr |-> 0, len |-> 0]

\* the elements of the slice sl
Value(arrays, sl) ==
  IF sl.arr = 0 THEN <<>> ELSE SubSeq(arrays[sl.arr], 1, sl.len)

Cap(arrays, sl) == IF sl.arr = 0 THEN 0 ELSE Len(arrays[sl.arr])

\* stores through the slice sl: its elements become the sequence s
Store(arrays, sl, s) ==
  IF sl.arr = 0 THEN arrays
  ELSE [arrays EXCEPT ![sl.arr] = s \o SubSeq(@, sl.len + 1, Len(@))]

\* the capacity append grows a full slice to
growCap(cap) == IF cap = 0 THEN 1 ELSE 2 * cap

\* append(sl, x): in place while the capacity lasts, else into a new array
appendTo(arrays, sl, x) ==
  IF sl.len < Cap(arrays, sl)
  THEN [arrays |-> [arrays EXCEPT ![sl.arr][sl.len + 1] = x],
        slice |-> [arr |-> sl.arr, len |-> sl.len + 1]]
  ELSE LET c == growCap(Cap(arrays, sl))
           a == [k \in 1..c |->
                   IF k <= sl.len THEN arrays[sl.arr][k]
                   ELSE IF k = sl.len + 1 THEN x
                   ELSE NoSymbol]
       IN [arrays |-> Append(arrays, a),
           slice |-> [arr |-> Len(arrays) + 1, len |-> sl.len + 1]]

\* slices.Clone(sl): the elements in an array of their own
clone(arrays, sl) ==
  IF sl.len = 0 THEN [arrays |-> arrays, slice |-> NilSlice]
  ELSE [arrays |-> Append(arrays, Value(arrays, sl)),
        slice |-> [arr |-> Len(arrays) + 1, len |-> sl.len]]

\* --------------------------------------- PluginGroup[T] on backing arrays
\* h is the memory: the arrays, g.ordered, g.symbols, the GroupStash that
\* Backup returned, the slice a reader method returned
\* Register under the write lock
HeapRegister(h, s) ==
  LET a == appendTo(h.arrays, h.symbols, s) IN
  [h EXCEPT !.arrays = a.arrays, !.symbols = a.slice, !.ordered = FALSE]

\* Clear
HeapClear(h) == [h EXCEPT !.ordered = FALSE, !.symbols = NilSlice]

\* Backup handing out g.symbols itself
HeapBackupShares(h) ==
  [h EXCEPT !.stash = [ordered |-> h.ordered, symbols |-> h.symbols]]

\* Backup
HeapBackup(h) ==
  LET c == clone(h.arrays, h.symbols) IN
  [h EXCEPT !.arrays = c.arrays,
            !.stash = [ordered |-> h.ordered, symbols |-> c.slice]]

\* Restore taking over s.symbols itself
HeapRestoreShares(h) ==
  [h EXCEPT !.ordered = h.stash.ordered, !.symbols = h.stash.symbols]

\* Restore
HeapRestore(h) ==
  LET c == clone(h.arrays, h.stash.symbols) IN
  [h EXCEPT !.arrays = c.arrays,
            !.ordered = h.stash.ordered,
            !.symbols = c.slice]

\* sort(): sort.Slice rearranges the array of g.symbols, the placement loop
\* works on a clone, which g.symbols then is
HeapSort(h) ==
  { LET a1 == Store(h.arrays, h.symbols, b)
        c == clone(a1, h.symbols)
    IN [h EXCEPT !.arrays = Store(c.arrays, c.slice, sortLoop(b, b, 1)),
                 !.symbols = c.slice]
    : b \in SortSlice(Value(h.arrays, h.symbols)) }

\* lock(): no other goroutine here, one pass of the loop at most
HeapLock(h) ==
  IF ~h.ordered
  THEN {[x EXCEPT !.ordered = TRUE] : x \in HeapSort(h)}
  ELSE {h}

\* PluginsSymbols() after lock()
HeapPluginsSymbols(h) ==
  LET c == clone(h.arrays, h.symbols) IN
  [h EXCEPT !.arrays = c.arrays, !.out = c.slice]

\* Symbols() after lock(): make and append (the cells hold whole symbols here)
HeapSymbols(h) ==
  IF h.symbols.len = 0
  THEN [h EXCEPT !.arrays = Append(h.arrays, <<>>),
                 !.out = [arr |-> Len(h.arrays) + 1, len |-> 0]]
  ELSE [h EXCEPT !.arrays = Append(h.arrays, Value(h.arrays, h.symbols)),
                 !.out = [arr |-> Len(h.arrays) + 1, len |-> h.symbols.len]]

\* a fresh group; none: no call yet; history: atBackup, what the group held
\* when Backup was called, atReturn, what the reader returned, restores and
\* since, the Restore calls and all calls after that Backup
GMemZero ==
  [arrays |-> <<>>, ordered |-> FALSE, symbols |-> NilSlice,
   stash |-> [ordered |-> FALSE, symbols |-> NilSlice], out |-> NilSlice,
   atBackup |-> ZeroGroup, atReturn |-> <<>>, restores |-> 0, since |-> 0,
   op |-> "none", n |-> 0]

\* ----------------------------------------------- v0: PluginGroup.sort
\* the less function of v0: by PluginSpec.Name
lessV0(x, y) == StrLess(x.Name, y.Name)

\* sort.Slice(pg.plugins, ...)
SortSliceV0(s) ==
  LET n == Len(s)
      bij == {f \in [1..n -> 1..n] : \A i, j \in 1..n : i # j => f[i] # f[j]}
      arr(f) == [k \in 1..n |-> s[f[k]]]
  IN {arr(f) : f \in {g \in bij :
        \A i, j \in 1..n : i < j => ~lessV0(s[g[j]], s[g[i]])}}

\* "for idx, pl = range plugs { if pl.Name == plug.Name { break } }"
findIdxV0(plugs, name) ==
  IF \E i \in 1..Len(plugs) : plugs[i].Name = name
  THEN (CHOOSE i \in 1..Len(plugs) :
          /\ plugs[i].Name = name
          /\ \A j \in 1..(i - 1) : plugs[j].Name # name) - 1
  ELSE IF Len(plugs) = 0 THEN 0 ELSE Len(plugs) - 1

\* "for i, p := range plugs { if before == p.Name ... }"
anchorPosV0(plugs, name, pos, after) ==
  IF \E i \in 1..Len(plugs) : plugs[i].Name = name
  THEN findIdxV0(plugs, name) + (IF after THEN 1 ELSE 0)
  ELSE pos

\* the position the placement of plug asks for
targetPosV0(plugs, plug, idx) ==
  LET pos1 == IF HasPrefix(plug.Placement, <<"<">>)
              THEN LET before == Tail(plug.Placement) IN
                   IF before = <<>> THEN 0
                   ELSE anchorPosV0(plugs, before, idx, FALSE)
              ELSE idx
      pos2 == IF HasPrefix(plug.Placement, <<">">>)
              THEN LET after == Tail(plug.Placement) IN
                   IF after = <<>> THEN Len(plugs)
                   ELSE anchorPosV0(plugs, after, pos1, TRUE)
              ELSE pos1
  IN pos2

\* the inline slide: the elements between idx and pos shift by one and the
\* iterated plug is written into the target slot
slideV0(plugs, plug, idx, pos) ==
  IF idx < pos
  THEN LET pos2 == pos - 1 IN
       [k \in 1..Len(plugs) |->
          IF k - 1 >= idx /\ k - 1 < pos2 THEN plugs[k + 1]
          ELSE IF k - 1 = pos2 THEN plug
          ELSE plugs[k]]
  ELSE IF idx > pos
  THEN [k \in 1..Len(plugs) |->
          IF k - 1 > pos /\ k - 1 <= idx THEN plugs[k - 1]
          ELSE IF k - 1 = pos THEN plug
          ELSE plugs[k]]
  ELSE plugs

\* the loop over the base-sorted pg.plugins from its i-th element on
RECURSIVE sortLoopV0(_, _, _)
sortLoopV0(plugins, plugs, i) ==
  IF i > Len(plugins) THEN plugs
  ELSE LET plug == plugins[i]
           idx == findIdxV0(plugs, plug.Name)
       IN sortLoopV0(plugins,
                     slideV0(plugs, plug, idx, targetPosV0(plugs, plug, idx)),
                     i + 1)

\* ------------------------------------ v0: the registry on backing arrays
\* m is the memory: the arrays, whether pluginGroups holds the group, the
\* group's unsorted flag and plugins slice, the slice Plugins() returned
\* registerPlugin: does it panic for a plugin name the group has?
registerPluginPanics(m, pspec) ==
  \E i \in 1..m.plugins.len : Value(m.arrays, m.plugins)[i].Name = pspec.Name

\* registerPlugin: the group found or created, the plugin tacked on
registerPlugin(m, pspec) ==
  LET a == appendTo(m.arrays, m.plugins, pspec) IN
  [m EXCEPT !.arrays = a.arrays, !.plugins = a.slice,
            !.hasGroup = TRUE, !.unsorted = TRUE]

\* pg.sort(): sort.Slice rearranges the array of pg.plugins, the loop works
\* on the copy plugs, which pg.plugins then is
sortV0(m) ==
  { LET a1 == Store(m.arrays, m.plugins, b)
        r == sortLoopV0(b, b, 1)
    IN [m EXCEPT !.arrays = Append(a1, r),
                 !.plugins = [arr |-> Len(a1) + 1, len |-> Len(r)]]
    : b \in SortSliceV0(Value(m.arrays, m.plugins)) }

\* New(name) for the name of the group: sorts when the group is unsorted
NewV0(m) ==
  IF m.hasGroup /\ m.unsorted
  THEN {[x EXCEPT !.unsorted = FALSE] : x \in sortV0(m)}
  ELSE {m}

\* PluginGroup.Plugins() of v0: "return pg.plugins"
PluginsV0(m) == [m EXCEPT !.out = m.plugins]

\* a fresh registry; history: atReturn, what Plugins() returned
V0Zero ==
  [arrays |-> <<>>, hasGroup |-> FALSE, unsorted |-> FALSE,
   plugins |-> NilSlice, out |-> NilSlice, atReturn |-> <<>>,
   op |-> "none", n |-> 0]

\* ------------------------- v0 and v2: the registry keyed by group name
\* the group names and the plugin names the callers use
GroupNames == {<<"a">>, <<"b">>}
NamedPlugins == {<<"a">>, <<"b">>}

\* a Symbol handed to a registration: named is true for a NamedSymbol; Name is
\* then NamedSymbol.Name, and else the name reflection finds for the function
\* or the pointed-to type; Kind is reflect.TypeOf(...).Kind(); F is the value
NamedSym(name, kind, f) == [named |-> TRUE, Name |-> name, Kind |-> kind, F |-> f]
Sym(name, kind, f) == [named |-> FALSE, Name |-> name, Kind |-> kind, F |-> f]

\* the Symbols lists of plugin p: none; one function; the same function twice; the
\* number 42 under one explicit name twice; 42 and a function under one name;
\* two functions with a common prefix and a pointer
SymbolLists(p) ==
  { <<>>,
    <<Sym(<<"a", "b">>, "func", <<p, 1>>)>>,
    <<Sym(<<"a", "b">>, "func", <<p, 1>>), Sym(<<"a", "b">>, "func", <<p, 1>>)>>,
    <<NamedSym(<<"a", "b">>, "int", <<p, 2>>), NamedSym(<<"a", "b">>, "int", <<p, 2>>)>>,
    <<NamedSym(<<"a", "b">>, "int", <<p, 2>>), Sym(<<"a", "b">>, "func", <<p, 1>>)>>,
    <<Sym(<<"a", "b">>, "func", <<p, 1>>), NamedSym(<<"a", "c">>, "func", <<p, 3>>),
      Sym(<<"b">>, "ptr", <<p, 4>>)>> }

\* the PluginSpecs handed to a registration: name and group are given
PluginSpecs ==
  { [Name |-> p, Group |-> g, Placement |-> IF p = <<"b">> THEN <<"<">> ELSE <<>>,
     Symbols |-> s, symbolmap |-> {}]
    : <<p, g, s>> \in {x \in NamedPlugins \X GroupNames \X UNION {SymbolLists(q) : q \in NamedPlugins} :
                        x[3] \in SymbolLists(x[1])} }

\* registerPlugin looking at every symbol it is handed
skipsNothing(symbol) == FALSE

\* registerPlugin: the "continue" statements of the loop over pspec.Symbols
skips(symbol) ==
  \/ symbol.named /\ symbol.Name = <<>>
  \/ symbol.Kind \notin {"func", "ptr"}

\* registerPlugin: the loop over pspec.Symbols from the i-th symbol on; a Go
\* map is a set of name/symbol pairs with one pair per name
RECURSIVE indexSymbols(_, _, _)
indexSymbols(syms, i, symbolmap) ==
  IF i > Len(syms) THEN [panic |-> FALSE, symbolmap |-> symbolmap]
  ELSE LET symbol == syms[i] IN
       IF skips(symbol) THEN indexSymbols(syms, i + 1, symbolmap)
       ELSE IF \E e \in symbolmap : e.name = symbol.Name
       THEN [panic |-> TRUE, symbolmap |-> symbolmap]
       ELSE indexSymbols(syms, i + 1,
              symbolmap \cup {[name |-> symbol.Name,
                               sym |-> [Kind |-> symbol.Kind, F |-> symbol.F]]})

\* &PluginGroup{Group: name}
NewPluginGroup(name) == [Group |-> name, unsorted |-> FALSE, plugins |-> <<>>]

\* v0 registerPlugin: the message it panics with, "" when it returns
RegisterPluginPanic(m, pspec) ==
  IF indexSymbols(pspec.Symbols, 1, {}).panic THEN "duplicate symbol"
  ELSE IF /\ m.pluginGroups[pspec.Group] # 0
          /\ \E i \in 1..Len(m.objs[m.pluginGroups[pspec.Group]].plugins) :
               m.objs[m.pluginGroups[pspec.Group]].plugins[i].Name = pspec.Name
  THEN "duplicate plugin name registration"
  ELSE ""

\* v0 registerPlugin when it returns: the group found or created, the plugin
\* tacked on
RegisterPluginV0(m, pspec) ==
  LET ps == [pspec EXCEPT !.symbolmap = indexSymbols(pspec.Symbols, 1, {}).symbolmap]
      found == m.pluginGroups[pspec.Group] # 0
      pg == IF found THEN m.pluginGroups[pspec.Group] ELSE Len(m.objs) + 1
      objs == IF found THEN m.objs ELSE Append(m.objs, NewPluginGroup(pspec.Group))
  IN [m EXCEPT !.pluginGroups[pspec.Group] = pg,
               !.objs = [objs EXCEPT ![pg].unsorted = TRUE,
                                     ![pg].plugins = Append(@, ps)]]

\* pg.sort() of v0 and v2: the lists it can leave
sortNamed(plugins) == {sortLoopV0(b, b, 1) : b \in SortSliceV0(plugins)}

\* does New store the group it creates in pluginGroups? v2 does, v0 does not
NewStores(ver) == ver = "v2"

\* New(name): the registries it can leave and the group it returns
New(m, name) ==
  LET pg == m.pluginGroups[name] IN
  IF pg # 0
  THEN IF m.objs[pg].unsorted
       THEN {[m |-> [m EXCEPT !.objs[pg].plugins = s, !.objs[pg].unsorted = FALSE],
              pg |-> pg] : s \in sortNamed(m.objs[pg].plugins)}
       ELSE {[m |-> m, pg |-> pg]}
  ELSE LET fresh == Len(m.objs) + 1
           objs == Append(m.objs, NewPluginGroup(name))
       IN {[m |-> IF NewStores(m.ver)
                  THEN [m EXCEPT !.objs = objs, !.pluginGroups[name] = fresh]
                  ELSE [m EXCEPT !.objs = objs],
            pg |-> fresh]}

\* resolveSymbol as tregister uses it: the name and the symbol to store; a
\* symbol it panics for is stored under the name ""
resolveSymbol(symbol) ==
  IF skips(symbol) \/ symbol.Name = <<>>
  THEN [name |-> <<>>, sym |-> [Kind |-> symbol.Kind, F |-> symbol.F]]
  ELSE [name |-> symbol.Name, sym |-> [Kind |-> symbol.Kind, F |-> symbol.F]]

\* tregister: "pspec.symbolmap[symname] = sym" for the symbols from the i-th on
RECURSIVE tregisterSymbols(_, _, _)
tregisterSymbols(syms, i, symbolmap) ==
  IF i > Len(syms) THEN symbolmap
  ELSE LET r == resolveSymbol(syms[i]) IN
       tregisterSymbols(syms, i + 1,
                        {e \in symbolmap : e.name # r.name} \cup {r})

\* tregister, the registration the v2 group tests use: New, append, unordered
tregister(m, pspec) ==
  { LET ps == [pspec EXCEPT !.symbolmap = tregisterSymbols(pspec.Symbols, 1, {})]
    IN [r.m EXCEPT !.objs[r.pg].plugins = Append(@, ps),
                   !.objs[r.pg].unsorted = TRUE]
    : r \in New(m, pspec.Group) }

\* a symbol that is anything but nil counting as a function
IsFuncOrPtr(s) == s.Kind \in {"func", "ptr"}

\* IsFunc of v2, "reflect.TypeOf(f).Kind() == reflect.Func" of v0
IsFunc(s) == s.Kind = "func"

\* Func(name): the loop over pg.plugins from the i-th plugin on
RECURSIVE Func(_, _, _)
Func(plugins, name, i) ==
  IF i > Len(plugins) THEN <<>>
  ELSE LET found == {e \in plugins[i].symbolmap : e.name = name /\ IsFunc(e.sym)} IN
       (IF found = {} THEN <<>> ELSE <<(CHOOSE e \in found : TRUE).sym>>)
         \o Func(plugins, name, i + 1)

\* the orders in which "range plug.symbolmap" can visit a map
MapOrders(symbolmap) ==
  LET n == Cardinality(symbolmap) IN
  {f \in [1..n -> symbolmap] : \A i, j \in 1..n : i # j => f[i] # f[j]}

\* FuncPrefix(prefix): the loop over pg.plugins from the i-th plugin on, the
\* slices it can return
RECURSIVE FuncPrefix(_, _, _)
FuncPrefix(plugins, prefix, i) ==
  IF i > Len(plugins) THEN {<<>>}
  ELSE LET matches(e) == HasPrefix(e.name, prefix) /\ IsFunc(e.sym)
           fs(order) == [k \in 1..Len(SelectSeq(order, matches)) |->
                           SelectSeq(order, matches)[k].sym]
       IN {fs(order) \o rest : order \in MapOrders(plugins[i].symbolmap),
                               rest \in FuncPrefix(plugins, prefix, i + 1)}

\* nothing was called yet
NoCall == [op |-> "", arg |-> <<>>, pg |-> 0, panic |-> "", out |-> <<>>]

\* an empty pluginGroups map; history: handles, the groups New has returned
\* per name, last, the last call and what it returned, n, the calls so far
NamedZero(ver) ==
  [ver |-> ver, pluginGroups |-> [g \in GroupNames |-> 0], objs |-> <<>>,
   handles |-> [g \in GroupNames |-> {}], last |-> NoCall, n |-> 0]

\* ------------------------------------------------------------ dyn.Discover
\* the files the directory path can hold, by number: 1 is path itself, 3 is
\* the subdirectory d, the others are files; children are in lexical order,
\* the order in which filepath.Walk visits them
Root == 1
Files ==
  <<[name |-> "path", isdir |-> TRUE, ext |-> "", children |-> <<2, 3, 6, 7>>],
    [name |-> "a.so", isdir |-> FALSE, ext |-> ".so", children |-> <<>>],
    [name |-> "d", isdir |-> TRUE, ext |-> "", children |-> <<4, 5>>],
    [name |-> "d/b.so", isdir |-> FALSE, ext |-> ".so", children |-> <<>>],
    [name |-> "d/c.so", isdir |-> FALSE, ext |-> ".so", children |-> <<>>],
    [name |-> "e.so", isdir |-> FALSE, ext |-> ".so", children |-> <<>>],
    [name |-> "f.txt", isdir |-> FALSE, ext |-> "", children |-> <<>>]>>

\* the trees: path exists, and a file of d exists only if d does
Trees ==
  {p \in SUBSET (1..Len(Files)) :
     Root \in p /\ (\A f \in {4, 5} : f \in p => 3 \in p)}

\* readDirNames: the entries of directory dir that exist, in lexical order
readDirNames(present, dir) ==
  SelectSeq(Files[dir].children, LAMBDA f : f \in present)

\* walkedOnSomething(recursive, path, info, nil) for file f, info never nil:
\* the error it returns and whether it calls plugin.Open; fails are the files
\* plugin.Open returns an error for
walkedOnSomething(recursive, f, fails) ==
  IF Files[f].isdir
  THEN [err |-> IF ~recursive THEN "SkipDir" ELSE "nil", opens |-> FALSE]
  ELSE IF Files[f].ext = ".so"
  THEN [err |-> IF f \in fails THEN "error" ELSE "nil", opens |-> TRUE]
  ELSE [err |-> "nil", opens |-> FALSE]

\* Discover was not called; history: opened, the files handed to plugin.Open
NoWalk ==
  [pc |-> "idle", recursive |-> FALSE, present |-> {Root}, fails |-> {},
   stack |-> <<>>, opened |-> <<>>, err |-> "nil"]

\* no pure function has been applied
NoCalc == [pc |-> "idle", fn |-> "", in |-> <<>>, out |-> <<>>]

InitHeaps ==
  gmem = GMemZero /\ v0 = V0Zero /\ named = NamedZero("v0") /\ dyn = NoWalk /\ calc = NoCalc

\* ------------------------------------------------------------------- Init
SrtIdle == [pc |-> "idle", syms |-> <<>>, i |-> 0, prev |-> <<>>, input |-> <<>>]

\* no write has returned, g.sort() has not run
NoEpisode == [write |-> "", sorts |-> 0]

\* no goroutine is inside a group method
InitCallers ==
  /\ mu = [w |-> 0, r |-> {}]
  /\ pc = [t \in Threads |-> "idle"]
  /\ sym = [t \in Threads |-> NoSymbol]
  /\ args = [t \in Threads |-> NoArgs]
  /\ ret = [t \in Threads |-> NoRet]
  /\ stash = ZeroGroup
  /\ calls = 0
  /\ live = {}
  /\ episode = NoEpisode

\* the group as Group[T]() creates it
InitGroup ==
  /\ ordered = ZeroGroup.ordered
  /\ symbols = ZeroGroup.symbols
  /\ InitCallers

\* Group[T]() not running: no type parameter T, no t, no group
NoLocals == [T |-> 0, t |-> 0, group |-> 0]

\* no method call on a group under way
NoUse == [T |-> 0, g |-> 0, op |-> "", arg |-> <<>>]

InitRegistry ==
  /\ groups = [T \in 1..NumTypes |-> 0]
  /\ groupsmu = 0
  /\ heap = <<>>
  /\ gpc = [t \in Threads |-> "idle"]
  /\ glocal = [t \in Threads |-> NoLocals]
  /\ lookups = 0
  /\ returned = [T \in 1..NumTypes |-> {}]
  /\ use = [t \in Threads |-> NoUse]
  /\ uses = 0

Init ==
  /\ InitGroup
  /\ kindT \in Kinds
  /\ srt = SrtIdle
  /\ InitRegistry
  /\ InitHeaps

\* ------------------------------------------------- Register(symbol, opts...)
\* Validate or complete panics: the call ends before the lock is requested
RegisterPanics(t) ==
  /\ pc[t] = "idle"
  /\ calls < MaxCalls
  /\ \E symbol \in RegValues, caller \in Callers, opts \in OptionLists :
       LET s == [S |-> symbol, Plugin |-> <<>>, Placement |-> <<>>] IN
       /\ panicOf(kindT, s, caller) # ""
       /\ args' = [args EXCEPT ![t] =
                     [symbol |-> symbol, caller |-> caller, opts |-> opts,
                      panic |-> panicOf(kindT, s, caller)]]
  /\ pc' = [pc EXCEPT ![t] = "panic"]
  /\ calls' = calls + 1
  /\ UNCHANGED <<ordered, symbols, mu, sym, ret, stash, kindT, live>>
  /\ UNCHANGED <<episode, srt, registryVars, heapVars>>

\* the caller of a panicking Register goes on
Recover(t) ==
  /\ pc[t] = "panic"
  /\ pc' = [pc EXCEPT ![t] = "idle"]
  /\ args' = [args EXCEPT ![t] = NoArgs]
  /\ UNCHANGED <<ordered, symbols, mu, sym, ret, stash, kindT, calls, live>>
  /\ UNCHANGED <<episode, srt, registryVars, heapVars>>

\* Validate, complete, the options, then g.mu.Lock()
RegisterLock(t) ==
  /\ pc[t] = "idle"
  /\ calls < MaxCalls
  /\ canLock(mu)
  /\ \E symbol \in RegValues, caller \in Callers, opts \in OptionLists :
       LET s == [S |-> symbol, Plugin |-> <<>>, Placement |-> <<>>] IN
       /\ panicOf(kindT, s, caller) = ""
       /\ sym' = [sym EXCEPT ![t] = applyOptions(complete(s, caller), opts)]
       /\ args' = [args EXCEPT ![t] =
                     [symbol |-> symbol, caller |-> caller, opts |-> opts,
                      panic |-> ""]]
  /\ mu' = [mu EXCEPT !.w = t]
  /\ pc' = [pc EXCEPT ![t] = "Register"]
  /\ calls' = calls + 1
  /\ UNCHANGED <<ordered, symbols, ret, stash, kindT, live>>
  /\ UNCHANGED <<episode, srt, registryVars, heapVars>>

\* g.ordered = false, the append, the deferred Unlock, return
RegisterReturn(t) ==
  /\ pc[t] = "Register"
  /\ SetG(Register(G, sym[t]))
  /\ live' = live \cup {sym[t]}
  /\ mu' = [mu EXCEPT !.w = 0]
  /\ sym' = [sym EXCEPT ![t] = NoSymbol]
  /\ args' = [args EXCEPT ![t] = NoArgs]
  /\ pc' = [pc EXCEPT ![t] = "idle"]
  /\ UNCHANGED <<ret, stash, kindT, calls>>
  /\ episode' = [write |-> "Register", sorts |-> 0]
  /\ UNCHANGED <<srt, registryVars, heapVars>>

\* ------------------------------------------------------------------ Clear()
ClearLock(t) ==
  /\ pc[t] = "idle"
  /\ calls < MaxCalls
  /\ canLock(mu)
  /\ mu' = [mu EXCEPT !.w = t]
  /\ pc' = [pc EXCEPT ![t] = "Clear"]
  /\ calls' = calls + 1
  /\ UNCHANGED <<ordered, symbols, sym, ret, stash, kindT, args, live>>
  /\ UNCHANGED <<episode, srt, registryVars, heapVars>>

ClearReturn(t) ==
  /\ pc[t] = "Clear"
  /\ SetG(Clear(G))
  /\ live' = {}
  /\ mu' = [mu EXCEPT !.w = 0]
  /\ pc' = [pc EXCEPT ![t] = "idle"]
  /\ UNCHANGED <<sym, ret, stash, kindT, args, calls>>
  /\ episode' = [write |-> "Clear", sorts |-> 0]
  /\ UNCHANGED <<srt, registryVars, heapVars>>

\* ----------------------------------------------------------------- Backup()
BackupRLock(t) ==
  /\ pc[t] = "idle"
  /\ calls < MaxCalls
  /\ canRLock(mu)
  /\ mu' = [mu EXCEPT !.r = @ \cup {t}]
  /\ pc' = [pc EXCEPT ![t] = "Backup"]
  /\ calls' = calls + 1
  /\ UNCHANGED <<ordered, symbols, sym, ret, stash, kindT, args, live>>
  /\ UNCHANGED <<episode, srt, registryVars, heapVars>>

BackupReturn(t) ==
  /\ pc[t] = "Backup"
  /\ stash' = Backup(G)
  /\ mu' = [mu EXCEPT !.r = @ \ {t}]
  /\ pc' = [pc EXCEPT ![t] = "idle"]
  /\ UNCHANGED <<ordered, symbols, sym, ret, kindT, args, calls, live>>
  /\ UNCHANGED <<episode, srt, registryVars, heapVars>>

\* --------------------------------------------------------------- Restore(s)
\* the stash handed over is the one the last Backup returned
RestoreLock(t) ==
  /\ pc[t] = "idle"
  /\ calls < MaxCalls
  /\ canLock(mu)
  /\ mu' = [mu EXCEPT !.w = t]
  /\ pc' = [pc EXCEPT ![t] = "Restore"]
  /\ calls' = calls + 1
  /\ UNCHANGED <<ordered, symbols, sym, ret, stash, kindT, args, live>>
  /\ UNCHANGED <<episode, srt, registryVars, heapVars>>

RestoreReturn(t) ==
  /\ pc[t] = "Restore"
  /\ SetG(Restore(G, stash))
  /\ live' = {}
  /\ mu' = [mu EXCEPT !.w = 0]
  /\ pc' = [pc EXCEPT ![t] = "idle"]
  /\ UNCHANGED <<sym, ret, stash, kindT, args, calls>>
  /\ episode' = [write |-> "Restore", sorts |-> 0]
  /\ UNCHANGED <<srt, registryVars, heapVars>>

\* ------------------------------------------------------------------- lock()
\* a reader method is called; its first statement is g.lock()
ReadCall(t) ==
  /\ pc[t] = "idle"
  /\ calls < MaxCalls
  /\ pc' = [pc EXCEPT ![t] = "lock_RLock"]
  /\ calls' = calls + 1
  /\ UNCHANGED <<ordered, symbols, mu, sym, ret, stash, kindT, args, live>>
  /\ UNCHANGED <<episode, srt, registryVars, heapVars>>

\* g.mu.RLock() on entry
LockRLock(t) ==
  /\ pc[t] = "lock_RLock"
  /\ canRLock(mu)
  /\ mu' = [mu EXCEPT !.r = @ \cup {t}]
  /\ pc' = [pc EXCEPT ![t] = "lock_for"]
  /\ UNCHANGED <<ordered, symbols, sym, ret, stash, kindT, args, calls, live>>
  /\ UNCHANGED <<episode, srt, registryVars, heapVars>>

\* the loop of lock() asking for the write lock without g.mu.RUnlock()
LockForKeepsRLock(t) ==
  /\ pc[t] = "lock_for"
  /\ mu' = mu
  /\ pc' = [pc EXCEPT ![t] = IF lockLoop(G) THEN "lock_Lock" ELSE "locked"]
  /\ UNCHANGED <<ordered, symbols, sym, ret, stash, kindT, args, calls, live>>
  /\ UNCHANGED <<episode, srt, registryVars, heapVars>>

\* for !g.ordered: leave the loop with the read lock held, or RUnlock
LockFor(t) ==
  /\ pc[t] = "lock_for"
  /\ IF lockLoop(G)
     THEN /\ mu' = [mu EXCEPT !.r = @ \ {t}]
          /\ pc' = [pc EXCEPT ![t] = "lock_Lock"]
     ELSE /\ mu' = mu
          /\ pc' = [pc EXCEPT ![t] = "locked"]
  /\ UNCHANGED <<ordered, symbols, sym, ret, stash, kindT, args, calls, live>>
  /\ UNCHANGED <<episode, srt, registryVars, heapVars>>

\* g.mu.Lock() inside the loop
LockLock(t) ==
  /\ pc[t] = "lock_Lock"
  /\ canLock(mu)
  /\ mu' = [mu EXCEPT !.w = t]
  /\ pc' = [pc EXCEPT ![t] = "lock_sort"]
  /\ UNCHANGED <<ordered, symbols, sym, ret, stash, kindT, args, calls, live>>
  /\ UNCHANGED <<episode, srt, registryVars, heapVars>>

\* if !g.ordered { g.sort(); g.ordered = true }; g.mu.Unlock()
LockSort(t) ==
  /\ pc[t] = "lock_sort"
  /\ \E g \in lockSort(G) : SetG(g)
  /\ episode' = [episode EXCEPT !.sorts = IF lockIf(G) THEN @ + 1 ELSE @]
  /\ mu' = [mu EXCEPT !.w = 0]
  /\ pc' = [pc EXCEPT ![t] = "lock_RLock2"]
  /\ UNCHANGED <<sym, ret, stash, kindT, args, calls, live>>
  /\ UNCHANGED <<srt, registryVars, heapVars>>

\* g.mu.RLock() at the end of the loop body
LockRelock(t) ==
  /\ pc[t] = "lock_RLock2"
  /\ canRLock(mu)
  /\ mu' = [mu EXCEPT !.r = @ \cup {t}]
  /\ pc' = [pc EXCEPT ![t] = lockAfterRelock]
  /\ UNCHANGED <<ordered, symbols, sym, ret, stash, kindT, args, calls, live>>
  /\ UNCHANGED <<episode, srt, registryVars, heapVars>>

\* ------------------------------------------- the reader methods' bodies
Reads(t, op, val) ==
  /\ pc[t] = "locked"
  /\ ret' = [ret EXCEPT ![t] = [op |-> op, val |-> val]]
  /\ pc' = [pc EXCEPT ![t] = "unlock"]
  /\ UNCHANGED <<ordered, symbols, mu, sym, stash, kindT, args, calls, live>>
  /\ UNCHANGED <<episode, srt, registryVars, heapVars>>

ReadSymbols(t) == Reads(t, "Symbols", Symbols(G))

ReadPluginsSymbols(t) == Reads(t, "PluginsSymbols", PluginsSymbols(G))

ReadPluginSymbol(t) ==
  \E name \in LookupNames : Reads(t, "PluginSymbol", <<name, PluginSymbol(G, name)>>)

ReadPlugins(t) == Reads(t, "Plugins", Plugins(G))

ReadString(t) ==
  IF StringPanics(G, kindT)
  THEN Reads(t, "panic", <<"String">>)
  ELSE Reads(t, "String", String(G, kindT))

\* the deferred g.unlock(), return
Unlock(t) ==
  /\ pc[t] = "unlock"
  /\ mu' = [mu EXCEPT !.r = @ \ {t}]
  /\ ret' = [ret EXCEPT ![t] = NoRet]
  /\ pc' = [pc EXCEPT ![t] = "idle"]
  /\ UNCHANGED <<ordered, symbols, sym, stash, kindT, args, calls, live>>
  /\ UNCHANGED <<episode, srt, registryVars, heapVars>>

Next ==
  \E t \in Threads :
    \/ RegisterPanics(t)
    \/ Recover(t)
    \/ RegisterLock(t)
    \/ RegisterReturn(t)
    \/ ClearLock(t)
    \/ ClearReturn(t)
    \/ BackupRLock(t)
    \/ BackupReturn(t)
    \/ RestoreLock(t)
    \/ RestoreReturn(t)
    \/ ReadCall(t)
    \/ LockRLock(t)
    \/ LockFor(t)
    \/ LockLock(t)
    \/ LockSort(t)
    \/ LockRelock(t)
    \/ ReadSymbols(t)
    \/ ReadPluginsSymbols(t)
    \/ ReadPluginSymbol(t)
    \/ ReadPlugins(t)
    \/ ReadString(t)
    \/ Unlock(t)

Spec == Init /\ [][Next]_vars

\* ------------------------------------- readers against a caller that never
\* ------------------------------------- stops writing
\* Clear() called once more, by a caller that is not counted in calls
ClearAgain(t) ==
  /\ pc[t] = "idle"
  /\ canLock(mu)
  /\ mu' = [mu EXCEPT !.w = t]
  /\ pc' = [pc EXCEPT ![t] = "Clear"]
  /\ UNCHANGED <<ordered, symbols, sym, ret, stash, kindT, args, calls, live>>
  /\ UNCHANGED <<episode, srt, registryVars, heapVars>>

NextLive ==
  \E t \in Threads :
    \/ RegisterLock(t)
    \/ RegisterReturn(t)
    \/ ClearAgain(t)
    \/ ClearReturn(t)
    \/ BackupRLock(t)
    \/ BackupReturn(t)
    \/ RestoreLock(t)
    \/ RestoreReturn(t)
    \/ ReadCall(t)
    \/ LockRLock(t)
    \/ LockFor(t)
    \/ LockLock(t)
    \/ LockSort(t)
    \/ LockRelock(t)
    \/ ReadPlugins(t)
    \/ Unlock(t)

\* the steps of goroutine t inside a method that wait for nothing
Proceeds(t) ==
  \/ RegisterReturn(t)
  \/ ClearReturn(t)
  \/ BackupReturn(t)
  \/ RestoreReturn(t)
  \/ LockFor(t)
  \/ LockSort(t)
  \/ ReadPlugins(t)
  \/ Unlock(t)

\* the steps of goroutine t inside lock() that wait for g.mu
Acquires(t) == LockRLock(t) \/ LockLock(t) \/ LockRelock(t)

InitLive == Init /\ kindT = "func"

\* the scheduler runs every goroutine that can run, and sync.RWMutex lets no
\* goroutine that asked for the lock wait forever while the lock keeps being
\* released; whether a caller calls again is up to the caller
SpecLive ==
  /\ InitLive
  /\ [][NextLive]_vars
  /\ \A t \in Threads : WF_vars(Proceeds(t)) /\ SF_vars(Acquires(t))

\* ------------------------------------------- g.sort(), iteration by iteration
\* an entry list Register calls can leave: n entries of any names and
\* placements, the symbol values telling the entries apart
SortInput(n, f) ==
  [k \in 1..n |-> [S |-> k, Plugin |-> f[k][1], Placement |-> f[k][2]]]

InitSort ==
  /\ ordered = FALSE
  /\ InitCallers
  /\ kindT = "func"
  /\ InitRegistry
  /\ InitHeaps
  /\ \E n \in 0..MaxSortLen :
       \E f \in [1..n -> PluginNames \X Placements] :
         /\ symbols = SortInput(n, f)
         /\ srt = [SrtIdle EXCEPT !.input = SortInput(n, f)]

\* sort.Slice(g.symbols, ...); symbols := slices.Clone(g.symbols)
SortBase ==
  /\ srt.pc = "idle"
  /\ \E b \in SortSlice(symbols) :
       /\ symbols' = b
       /\ srt' = [srt EXCEPT !.pc = "loop", !.syms = b, !.i = 1, !.prev = b]
  /\ UNCHANGED <<ordered, mu, pc, sym, ret, stash, kindT, args, calls, live>>
  /\ UNCHANGED <<episode, registryVars, heapVars>>

\* one iteration of "for _, symbol := range g.symbols"
SortIter ==
  /\ srt.pc = "loop"
  /\ srt.i <= Len(symbols)
  /\ srt' = [srt EXCEPT !.syms = sortStep(srt.syms, symbols[srt.i]),
                        !.i = srt.i + 1,
                        !.prev = srt.syms]
  /\ UNCHANGED groupVars
  /\ UNCHANGED <<episode, registryVars, heapVars>>

\* g.symbols = symbols
SortDone ==
  /\ srt.pc = "loop"
  /\ srt.i > Len(symbols)
  /\ symbols' = srt.syms
  /\ srt' = [srt EXCEPT !.pc = "done"]
  /\ UNCHANGED <<ordered, mu, pc, sym, ret, stash, kindT, args, calls, live>>
  /\ UNCHANGED <<episode, registryVars, heapVars>>

NextSort == SortBase \/ SortIter \/ SortDone

SpecSort == InitSort /\ [][NextSort]_vars

\* ------------------------------------------------------------- Group[T]()
Types == 1..NumTypes

\* a Lock that never waits
canLockMutexNoWait(m) == TRUE

\* sync.Mutex: Lock returns once no goroutine holds it
canLockMutex(m) == m = 0

\* group == nil
isNil(group) == group = 0

\* a map key that tells function types from interface types only
TypeOfKind(T) == 1

\* reflect.TypeOf(dummyCompositeT).Elem(): the reflect.Type of T, one per type
TypeOfElem(T) == T

\* t := reflect.TypeOf(dummyCompositeT).Elem()
GroupCall(t) ==
  /\ gpc[t] = "idle"
  /\ lookups < MaxLookups
  /\ \E T \in Types :
       glocal' = [glocal EXCEPT ![t] = [T |-> T, t |-> TypeOfElem(T), group |-> 0]]
  /\ gpc' = [gpc EXCEPT ![t] = "Group_Lock"]
  /\ lookups' = lookups + 1
  /\ UNCHANGED <<groups, groupsmu, heap, returned, use, uses>>
  /\ UNCHANGED <<groupVars, episode, srt, heapVars>>

\* groupsmu.Lock()
GroupLock(t) ==
  /\ gpc[t] = "Group_Lock"
  /\ canLockMutex(groupsmu)
  /\ groupsmu' = t
  /\ gpc' = [gpc EXCEPT ![t] = "Group_lookup"]
  /\ UNCHANGED <<groups, heap, glocal, lookups, returned, use, uses>>
  /\ UNCHANGED <<groupVars, episode, srt, heapVars>>

\* group := groups[t]
GroupLookup(t) ==
  /\ gpc[t] = "Group_lookup"
  /\ glocal' = [glocal EXCEPT ![t].group = groups[glocal[t].t]]
  /\ gpc' = [gpc EXCEPT ![t] = "Group_if"]
  /\ UNCHANGED <<groups, groupsmu, heap, lookups, returned, use, uses>>
  /\ UNCHANGED <<groupVars, episode, srt, heapVars>>

\* if group == nil { group = &PluginGroup[T]{}; groups[t] = group }
GroupIf(t) ==
  /\ gpc[t] = "Group_if"
  /\ IF isNil(glocal[t].group)
     THEN /\ heap' = Append(heap, [type |-> glocal[t].T, mu |-> [w |-> 0, r |-> {}]] @@ ZeroGroup)
          /\ glocal' = [glocal EXCEPT ![t].group = Len(heap) + 1]
          /\ groups' = [groups EXCEPT ![glocal[t].t] = Len(heap) + 1]
     ELSE UNCHANGED <<heap, glocal, groups>>
  /\ gpc' = [gpc EXCEPT ![t] = "Group_return"]
  /\ UNCHANGED <<groupsmu, lookups, returned, use, uses>>
  /\ UNCHANGED <<groupVars, episode, srt, heapVars>>

\* the deferred groupsmu.Unlock(), return group
GroupReturn(t) ==
  /\ gpc[t] = "Group_return"
  /\ groupsmu' = 0
  /\ returned' = [returned EXCEPT ![glocal[t].T] = @ \cup {glocal[t].group}]
  /\ glocal' = [glocal EXCEPT ![t] = NoLocals]
  /\ gpc' = [gpc EXCEPT ![t] = "idle"]
  /\ UNCHANGED <<groups, heap, lookups, use, uses>>
  /\ UNCHANGED <<groupVars, episode, srt, heapVars>>

\* ------------------------------- methods called on the groups of the registry
\* the methods that take the write lock of their group; "lock" is the retry
\* loop of a reader that finds the group Dirty
UseOps == {"Register", "Clear", "Restore", "lock"}

\* what the calls are handed: a completed Symbol, a GroupStash, or nothing
UseArgs(op) ==
  CASE op = "Register" ->
         { [S |-> 1, Plugin |-> <<"b">>, Placement |-> <<>>],
           [S |-> 2, Plugin |-> <<"a">>, Placement |-> <<>>] }
    [] op = "Restore" ->
         { ZeroGroup,
           [ordered |-> TRUE,
            symbols |-> <<[S |-> 1, Plugin |-> <<"a">>, Placement |-> <<>>]>>] }
    [] OTHER -> {<<>>}

\* the group a method leaves, as the fields ordered and symbols
UseResult(op, g, arg) ==
  CASE op = "Register" -> {Register(g, arg)}
    [] op = "Clear" -> {Clear(g)}
    [] op = "Restore" -> {Restore(g, arg)}
    [] op = "lock" -> lockSort(g)

\* Group[T]().Register(...) and the like: the call, on a group that Group[T]()
\* has returned for the caller's T
UseCall(t) ==
  /\ gpc[t] = "idle"
  /\ uses < MaxUses
  /\ \E T \in Types : \E g \in returned[T] : \E op \in UseOps :
       /\ op = "Register" => Len(heap[g].symbols) < MaxUseLen
       /\ \E arg \in UseArgs(op) :
            use' = [use EXCEPT ![t] = [T |-> T, g |-> g, op |-> op, arg |-> arg]]
  /\ gpc' = [gpc EXCEPT ![t] = "g_Lock"]
  /\ uses' = uses + 1
  /\ UNCHANGED <<groups, groupsmu, heap, glocal, lookups, returned>>
  /\ UNCHANGED <<groupVars, episode, srt, heapVars>>

\* g.mu.Lock()
UseLock(t) ==
  /\ gpc[t] = "g_Lock"
  /\ canLock(heap[use[t].g].mu)
  /\ heap' = [heap EXCEPT ![use[t].g].mu.w = t]
  /\ gpc' = [gpc EXCEPT ![t] = "g_locked"]
  /\ UNCHANGED <<groups, groupsmu, glocal, lookups, returned, use, uses>>
  /\ UNCHANGED <<groupVars, episode, srt, heapVars>>

\* the statements under the write lock, g.mu.Unlock()
UseUnlock(t) ==
  /\ gpc[t] = "g_locked"
  /\ \E r \in UseResult(use[t].op, heap[use[t].g], use[t].arg) :
       heap' = [heap EXCEPT ![use[t].g] =
                  [type |-> @.type, mu |-> [@.mu EXCEPT !.w = 0], ordered |-> r.ordered,
                   symbols |-> r.symbols]]
  /\ use' = [use EXCEPT ![t] = NoUse]
  /\ gpc' = [gpc EXCEPT ![t] = "idle"]
  /\ UNCHANGED <<groups, groupsmu, glocal, lookups, returned, uses>>
  /\ UNCHANGED <<groupVars, episode, srt, heapVars>>

NextRegistry ==
  \E t \in Threads :
    \/ GroupCall(t)
    \/ GroupLock(t)
    \/ GroupLookup(t)
    \/ GroupIf(t)
    \/ GroupReturn(t)
    \/ UseCall(t)
    \/ UseLock(t)
    \/ UseUnlock(t)

InitRegistrySpec ==
  /\ InitGroup
  /\ kindT = "func"
  /\ srt = SrtIdle
  /\ InitRegistry
  /\ InitHeaps

SpecRegistry == InitRegistrySpec /\ [][NextRegistry]_vars

\* ------------------------------- one caller, the slices on backing arrays
\* the symbols handed to Register
HeapInputs ==
  { [S |-> 1, Plugin |-> <<"b">>, Placement |-> <<>>],
    [S |-> 2, Plugin |-> <<"a">>, Placement |-> <<>>],
    [S |-> 3, Plugin |-> <<"c">>, Placement |-> <<"<">>] }

\* what a caller stores into a slice it was handed
Scribble == [S |-> 9, Plugin |-> <<"x">>, Placement |-> <<>>]

\* the call op took the memory to h
Called(h, op) ==
  /\ gmem.n < MaxHeapOps
  /\ gmem' = [h EXCEPT !.op = op, !.n = gmem.n + 1,
                       !.since = IF op = "Backup" THEN 0 ELSE gmem.since + 1]
  /\ UNCHANGED <<groupVars, episode, srt, registryVars, v0, named, dyn, calc>>

HeapRegisterCall ==
  /\ gmem.symbols.len < MaxHeapLen
  /\ \E s \in HeapInputs : Called(HeapRegister(gmem, s), "Register")

HeapClearCall == Called(HeapClear(gmem), "Clear")

HeapBackupCall ==
  Called([HeapBackup(gmem) EXCEPT
            !.atBackup = [ordered |-> gmem.ordered,
                          symbols |-> Value(gmem.arrays, gmem.symbols)],
            !.restores = 0],
         "Backup")

HeapRestoreCall ==
  Called([HeapRestore(gmem) EXCEPT !.restores = gmem.restores + 1], "Restore")

HeapPluginsSymbolsCall ==
  \E h \in HeapLock(gmem) :
    LET r == HeapPluginsSymbols(h) IN
    Called([r EXCEPT !.atReturn = Value(r.arrays, r.out)], "PluginsSymbols")

HeapSymbolsCall ==
  \E h \in HeapLock(gmem) :
    LET r == HeapSymbols(h) IN
    Called([r EXCEPT !.atReturn = Value(r.arrays, r.out)], "Symbols")

\* the caller stores into the slice the reader returned
HeapScribble ==
  /\ gmem.out.len > 0
  /\ \E i \in 1..gmem.out.len :
       LET a == [gmem.arrays EXCEPT ![gmem.out.arr][i] = Scribble] IN
       Called([gmem EXCEPT !.arrays = a, !.atReturn = Value(a, gmem.out)],
              "scribble")

NextHeap ==
  \/ HeapRegisterCall
  \/ HeapClearCall
  \/ HeapBackupCall
  \/ HeapRestoreCall
  \/ HeapPluginsSymbolsCall
  \/ HeapSymbolsCall
  \/ HeapScribble

SpecHeap == InitRegistrySpec /\ [][NextHeap]_vars

\* --------------------------------------------------- v0, one caller
\* the plugin specifications handed to RegisterPlugin, all of one group
V0Specs ==
  { [Name |-> <<"b">>, Placement |-> <<>>],
    [Name |-> <<"a">>, Placement |-> <<>>],
    [Name |-> <<"c">>, Placement |-> <<"<">>] }

\* what a caller stores into the slice it was handed
ScribbleV0 == [Name |-> <<"x">>, Placement |-> <<>>]

\* the call op took the memory to m
CalledV0(m, op) ==
  /\ v0.n < MaxV0Ops
  /\ v0' = [m EXCEPT !.op = op, !.n = v0.n + 1]
  /\ UNCHANGED <<groupVars, episode, srt, registryVars, gmem, named, dyn, calc>>

\* RegisterPlugin of a name the group has: the panic, nothing stored
V0RegisterPanics ==
  \E pspec \in V0Specs :
    /\ registerPluginPanics(v0, pspec)
    /\ CalledV0(v0, "panic")

V0RegisterPlugin ==
  \E pspec \in V0Specs :
    /\ ~registerPluginPanics(v0, pspec)
    /\ CalledV0(registerPlugin(v0, pspec), "RegisterPlugin")

V0New == \E m \in NewV0(v0) : CalledV0(m, "New")

\* Plugins() through the handle New returned for the group
V0Plugins ==
  /\ v0.hasGroup
  /\ LET r == PluginsV0(v0) IN
     CalledV0([r EXCEPT !.atReturn = Value(r.arrays, r.out)], "Plugins")

\* the caller stores into the slice Plugins() returned
V0Scribble ==
  /\ v0.out.len > 0
  /\ \E i \in 1..v0.out.len :
       LET a == [v0.arrays EXCEPT ![v0.out.arr][i] = ScribbleV0] IN
       CalledV0([v0 EXCEPT !.arrays = a, !.atReturn = Value(a, v0.out)],
                "scribble")

NextV0 ==
  \/ V0RegisterPanics
  \/ V0RegisterPlugin
  \/ V0New
  \/ V0Plugins
  \/ V0Scribble

SpecV0 == InitRegistrySpec /\ [][NextV0]_vars

\* ------------------------------------- v0 and v2 by group name, one caller
\* one more call can start
NamedCall == named.n < MaxNamedOps

\* the call took the registry to m and is recorded in last
CalledNamed(m, last) ==
  /\ named' = [m EXCEPT !.last = last, !.n = named.n + 1]
  /\ UNCHANGED <<groupVars, episode, srt, registryVars, gmem, v0, dyn, calc>>

\* v0: RegisterPlugin panics
NamedRegisterPanics ==
  /\ NamedCall
  /\ named.ver = "v0"
  /\ \E pspec \in PluginSpecs :
       /\ RegisterPluginPanic(named, pspec) # ""
       /\ CalledNamed(named, [NoCall EXCEPT !.op = "RegisterPlugin", !.arg = pspec,
                                            !.panic = RegisterPluginPanic(named, pspec)])

\* v0: RegisterPlugin returns
NamedRegisterPlugin ==
  /\ NamedCall
  /\ named.ver = "v0"
  /\ \E pspec \in PluginSpecs :
       /\ RegisterPluginPanic(named, pspec) = ""
       /\ CalledNamed(RegisterPluginV0(named, pspec),
                      [NoCall EXCEPT !.op = "RegisterPlugin", !.arg = pspec])

\* v2: the registration of the group tests
NamedTregister ==
  /\ NamedCall
  /\ named.ver = "v2"
  /\ \E pspec \in PluginSpecs : \E m \in tregister(named, pspec) :
       CalledNamed(m, [NoCall EXCEPT !.op = "tregister", !.arg = pspec])

\* New(name)
NamedNew ==
  /\ NamedCall
  /\ \E name \in GroupNames : \E r \in New(named, name) :
    CalledNamed([r.m EXCEPT !.handles[name] = @ \cup {r.pg}],
                [NoCall EXCEPT !.op = "New", !.arg = name, !.pg = r.pg])

\* the groups the caller holds: what New has returned
Handles == UNION {named.handles[g] : g \in GroupNames}

\* the symbol names and prefixes asked for
QueryNames == {<<"a", "b">>, <<"a">>, <<"b">>}

\* pg.PluginNames(): the names of the plugins in the order of pg.plugins
pgPluginNames(plugins) == [k \in 1..Len(plugins) |-> plugins[k].Name]

\* pg.PluginNames() on a group New returned
NamedPluginNames ==
  /\ NamedCall
  /\ \E pg \in Handles :
       CalledNamed(named, [NoCall EXCEPT !.op = "PluginNames", !.pg = pg,
                             !.out = pgPluginNames(named.objs[pg].plugins)])

\* pg.Func(name) on a group New returned
NamedFunc ==
  /\ NamedCall
  /\ \E pg \in Handles : \E name \in QueryNames :
       CalledNamed(named, [NoCall EXCEPT !.op = "Func", !.arg = name, !.pg = pg,
                             !.out = Func(named.objs[pg].plugins, name, 1)])

\* pg.FuncPrefix(prefix) on a group New returned
NamedFuncPrefix ==
  /\ NamedCall
  /\ \E pg \in Handles : \E prefix \in QueryNames :
       \E fs \in FuncPrefix(named.objs[pg].plugins, prefix, 1) :
         CalledNamed(named, [NoCall EXCEPT !.op = "FuncPrefix", !.arg = prefix,
                               !.pg = pg, !.out = fs])

NextNamed ==
  \/ NamedRegisterPanics
  \/ NamedRegisterPlugin
  \/ NamedTregister
  \/ NamedNew
  \/ NamedPluginNames
  \/ NamedFunc
  \/ NamedFuncPrefix

\* the registry of v0 or of v2, empty
InitNamed ==
  /\ InitGroup
  /\ kindT = "func"
  /\ srt = SrtIdle
  /\ InitRegistry
  /\ gmem = GMemZero
  /\ v0 = V0Zero
  /\ dyn = NoWalk
  /\ \E ver \in {"v0", "v2"} : named = NamedZero(ver)
  /\ calc = NoCalc

SpecNamed == InitNamed /\ [][NextNamed]_vars

\* ------------------------------------------- dyn.Discover, step by step
\* a step of the walk takes dyn to d
Walked(d) ==
  /\ dyn' = d
  /\ UNCHANGED <<groupVars, episode, srt, registryVars, gmem, v0, named, calc>>

\* the walk with the call of walkFn on file f recorded
Visit(f) ==
  LET r == walkedOnSomething(dyn.recursive, f, dyn.fails) IN
  [dyn EXCEPT !.opened = IF r.opens THEN Append(@, f) ELSE @]

\* filepath.Walk(path, ...): os.Lstat succeeds, walk(root): walkFn is called
\* on the directory; an error, SkipDir included, ends the walk
WalkRoot ==
  /\ dyn.pc = "Walk"
  /\ LET r == walkedOnSomething(dyn.recursive, Root, dyn.fails) IN
     IF r.err # "nil"
     THEN Walked([Visit(Root) EXCEPT !.pc = "done",
                    !.err = IF r.err = "SkipDir" THEN "nil" ELSE r.err])
     ELSE Walked([Visit(Root) EXCEPT !.pc = "walk",
                    !.stack = <<[names |-> readDirNames(dyn.present, Root), i |-> 1]>>])

\* walk: one iteration of "for _, name := range names" on a file that is not
\* a directory; an error of walkFn is returned all the way up
WalkFile ==
  /\ dyn.pc = "walk"
  /\ LET top == dyn.stack[Len(dyn.stack)] IN
     /\ top.i <= Len(top.names)
     /\ ~Files[top.names[top.i]].isdir
     /\ LET f == top.names[top.i]
            r == walkedOnSomething(dyn.recursive, f, dyn.fails)
        IN IF r.err # "nil"
           THEN Walked([Visit(f) EXCEPT !.pc = "done", !.stack = <<>>, !.err = r.err])
           ELSE Walked([Visit(f) EXCEPT !.stack[Len(dyn.stack)].i = top.i + 1])

\* walk: one iteration on a directory: walkFn, then its entries unless walkFn
\* said SkipDir
WalkDir ==
  /\ dyn.pc = "walk"
  /\ LET top == dyn.stack[Len(dyn.stack)] IN
     /\ top.i <= Len(top.names)
     /\ Files[top.names[top.i]].isdir
     /\ LET f == top.names[top.i]
            r == walkedOnSomething(dyn.recursive, f, dyn.fails)
            next == [Visit(f) EXCEPT !.stack[Len(dyn.stack)].i = top.i + 1]
        IN IF r.err = "SkipDir"
           THEN Walked(next)
           ELSE Walked([next EXCEPT !.stack =
                          Append(@, [names |-> readDirNames(dyn.present, f), i |-> 1])])

\* walk: the loop over the names has ended, return nil
WalkReturn ==
  /\ dyn.pc = "walk"
  /\ LET top == dyn.stack[Len(dyn.stack)] IN
     /\ top.i > Len(top.names)
     /\ Walked([dyn EXCEPT !.stack = SubSeq(@, 1, Len(@) - 1),
                           !.pc = IF Len(dyn.stack) = 1 THEN "done" ELSE "walk"])

NextDyn == WalkRoot \/ WalkFile \/ WalkDir \/ WalkReturn

\* Discover(path, recursive) is called on a tree some of whose .so files
\* cannot be loaded
InitDyn ==
  /\ InitGroup
  /\ kindT = "func"
  /\ srt = SrtIdle
  /\ InitRegistry
  /\ gmem = GMemZero
  /\ v0 = V0Zero
  /\ named = NamedZero("v0")
  /\ \E recursive \in BOOLEAN, present \in Trees :
       \E fails \in SUBSET {f \in present : Files[f].ext = ".so"} :
         dyn = [NoWalk EXCEPT !.pc = "Walk", !.recursive = recursive,
                              !.present = present, !.fails = fails]
  /\ calc = NoCalc

SpecDyn == InitDyn /\ [][NextDyn]_vars

\* ------------------------------------------------ pure functions, applied
\* everything but calc is in its initial state
InitIdle ==
  /\ InitGroup
  /\ kindT = "func"
  /\ srt = SrtIdle
  /\ InitRegistry
  /\ gmem = GMemZero
  /\ v0 = V0Zero
  /\ named = NamedZero("v0")
  /\ dyn = NoWalk

\* the function returns out
Returns(out) ==
  /\ calc' = [calc EXCEPT !.pc = "done", !.out = out]
  /\ UNCHANGED <<groupVars, episode, srt, registryVars, gmem, v0, named, dyn>>

\* the slices move is applied to: up to MaxMoveLen elements, some of them equal
MoveSlices == UNION {[1..n -> 1..MaxMoveLen] : n \in 1..MaxMoveLen}

\* move(s, from, to) for 0 <= from < len(s) and 0 <= to <= len(s)
InitMove ==
  /\ InitIdle
  /\ \E s \in MoveSlices :
       \E from \in 0..(Len(s) - 1), to \in 0..Len(s) :
         calc = [NoCalc EXCEPT !.pc = "call", !.fn = "move",
                               !.in = [s |-> s, from |-> from, to |-> to]]

MoveCall ==
  /\ calc.pc = "call"
  /\ calc.fn = "move"
  /\ Returns(move(calc.in.s, calc.in.from, calc.in.to))

SpecMove == InitMove /\ [][MoveCall]_vars

\* ------------------------------------------- the resolvers of v0/v2 and v3
\* the lists both resolvers are run on: up to MaxAgreeLen entries in any
\* registration order, pairwise distinct owners, any placements
AgreeInputs ==
  UNION {{f \in [1..n -> PluginNames \X Placements] :
            \A i, j \in 1..n : i # j => f[i][1] # f[j][1]} :
         n \in 0..MaxAgreeLen}

\* the list as v0/v2 plugin specifications and as v3 symbols
AsPlugins(f) == [k \in 1..Len(f) |-> [Name |-> f[k][1], Placement |-> f[k][2]]]
AsSymbols(f) == [k \in 1..Len(f) |-> [S |-> k, Plugin |-> f[k][1], Placement |-> f[k][2]]]

InitAgree ==
  /\ InitIdle
  /\ \E f \in AgreeInputs : calc = [NoCalc EXCEPT !.pc = "call", !.fn = "sort", !.in = f]

\* pg.sort() of v0/v2 and g.sort() of v3 on the same list
AgreeCall ==
  /\ calc.pc = "call"
  /\ calc.fn = "sort"
  /\ \E a \in sortNamed(AsPlugins(calc.in)), b \in sort(AsSymbols(calc.in)) :
       Returns([v0 |-> pgPluginNames(a), v3 |-> Plugins([symbols |-> b])])

SpecAgree == InitAgree /\ [][AgreeCall]_vars

\* ------------------------------------- two runs registering the same entries
\* the sets of entries with pairwise distinct owners, at most MaxEntries of
\* them; the symbol value tells whose entry it is
EntrySets ==
  UNION {{ {[S |-> Ord(n[1]), Plugin |-> n, Placement |-> f[n]] : n \in N} :
             f \in [N -> Placements]} :
         N \in {M \in SUBSET PluginNames : Cardinality(M) <= MaxEntries}}

\* a run that has called nothing yet: its group, the entries it has still to
\* register, its calls so far, and what its last read returned if no Register
\* came after it
NewRun(run, first, order) ==
  [run |-> run, g |-> ZeroGroup, left |-> calc.in, log |-> <<>>,
   fresh |-> FALSE, read |-> <<>>, first |-> first, order |-> order]

InitCommute ==
  /\ InitIdle
  /\ \E entries \in EntrySets :
       calc = [pc |-> "run", fn |-> "Register", in |-> entries,
               out |-> [run |-> 1, g |-> ZeroGroup, left |-> entries,
                        log |-> <<>>, fresh |-> FALSE, read |-> <<>>,
                        first |-> <<>>, order |-> <<>>]]

\* the run goes on with out
Runs(out) ==
  /\ calc' = [calc EXCEPT !.out = out]
  /\ UNCHANGED <<groupVars, episode, srt, registryVars, gmem, v0, named, dyn>>

\* g.Register(s) of an entry not yet registered
CommuteRegister ==
  /\ calc.fn = "Register"
  /\ calc.pc = "run"
  /\ \E s \in calc.out.left :
       Runs([calc.out EXCEPT !.g = Register(@, s), !.left = @ \ {s},
                             !.log = Append(@, s.Plugin),
                             !.fresh = FALSE, !.read = <<>>])

\* a read, g.PluginsSymbols(), after a Register or as the first call: lock()
\* sorts if the group is not ordered
CommuteRead ==
  /\ calc.fn = "Register"
  /\ calc.pc = "run"
  /\ ~calc.out.fresh
  /\ \E g \in lockSort(calc.out.g) :
       Runs([calc.out EXCEPT !.g = g, !.log = Append(@, <<"read">>),
                             !.fresh = TRUE, !.read = PluginsSymbols(g)])

\* the first run has registered everything and read: the second run begins
CommuteAgain ==
  /\ calc.fn = "Register"
  /\ calc.pc = "run"
  /\ calc.out.run = 1
  /\ calc.out.left = {}
  /\ calc.out.fresh
  /\ Runs(NewRun(2, calc.out.read,
                 SelectSeq(calc.out.log, LAMBDA x : x # <<"read">>)))

NextCommute == CommuteRegister \/ CommuteRead \/ CommuteAgain

SpecCommute == InitCommute /\ [][NextCommute]_vars

\* ============================================================== properties
Range(s) == {s[i] : i \in 1..Len(s)}

\* a is b rearranged: no element lost, duplicated or altered
IsPermutation(a, b) ==
  /\ Len(a) = Len(b)
  /\ \E f \in [1..Len(a) -> 1..Len(a)] :
       /\ \A i, j \in 1..Len(a) : i # j => f[i] # f[j]
       /\ \A i \in 1..Len(a) : a[i] = b[f[i]]

\* s without the element e, the others in their order
Without(s, e) == SelectSeq(s, LAMBDA x : x # e)

\* the owners of s ascend, equal owners allowed
Ascending(s) ==
  \A i, j \in 1..Len(s) : i < j => ~StrLess(s[j].Plugin, s[i].Plugin)

\* the owners of s ascend strictly
StrictlyAscending(s) ==
  \A i, j \in 1..Len(s) : i < j => StrLess(s[i].Plugin, s[j].Plugin)

DistinctOwners(s) ==
  \A i, j \in 1..Len(s) : i # j => s[i].Plugin # s[j].Plugin

HasOwner(s, name) == \E i \in 1..Len(s) : s[i].Plugin = name

\* e sits directly before / directly after an element owned by name
DirectlyBefore(s, e, name) ==
  \E k \in 1..(Len(s) - 1) : s[k] = e /\ s[k + 1].Plugin = name

DirectlyAfter(s, e, name) ==
  \E k \in 2..Len(s) : s[k] = e /\ s[k - 1].Plugin = name

\* the placement is "<X" resp. ">X" with a name X
IsBefore(p) == Len(p) > 1 /\ Head(p) = "<"
IsAfter(p) == Len(p) > 1 /\ Head(p) = ">"

\* in SpecSort: an iteration of the loop has just run
Stepped == srt.pc = "loop" /\ srt.i > 1
\* in SpecSort: the symbol that iteration processed
Processed == symbols[srt.i - 1]

\* the group's list is one the resolver leaves for the entries it holds
Resolved(g) == g.symbols \in sort(g.symbols)

\* C1: a reader that is between the return of lock() and its unlock() finds
\* the group Clean and its list fully resolved, under every interleaving with
\* other readers and with Register, Clear and Restore.
C1_ReadersSeeResolved ==
  \A t \in Threads :
    pc[t] \in {"locked", "unlock"} => (ordered /\ Resolved(G))

\* C1 witness: two readers past lock() at once, on a list that placement
\* has reordered
C1_Witness ==
  \E t, u \in Threads :
    /\ t # u
    /\ pc[t] = "locked"
    /\ pc[u] \in {"locked", "unlock"}
    /\ Len(symbols) = 2
    /\ symbols[1].Plugin = <<"b">>
    /\ symbols[2].Plugin = <<"a">>

\* C2: whenever the group is Clean (ordered) its list is the resolver's
\* output for the entries it holds.
C2_CleanIsResolved == ordered => Resolved(G)

\* C2 witness: a Clean group whose list a Restore brought back
C2_Witness ==
  /\ ordered
  /\ Len(symbols) = 1
  /\ stash = G
  /\ live = {}

\* what a reader method's result holds of the symbol s; a call that panics
\* returns nothing
ReturnHas(r, s) ==
  CASE r.op = "PluginsSymbols" -> \E i \in 1..Len(r.val) : r.val[i] = s
    [] r.op = "Plugins" -> \E i \in 1..Len(r.val) : r.val[i] = s.Plugin
    [] r.op = "Symbols" -> \E i \in 1..Len(r.val) : r.val[i] = s.S
    [] r.op = "String" ->
         \E i \in 1..Len(r.val) : SubSeq(r.val, i, i + Len(s.Plugin) - 1) = s.Plugin
    [] r.op = "PluginSymbol" -> (r.val[1] = s.Plugin => r.val[2] # NilSym)
    [] r.op = "panic" -> TRUE

\* C3: a read returns every symbol registered by a Register call that
\* returned since the last Clear or Restore.
C3_ReadHasRegistered ==
  \A t \in Threads :
    pc[t] = "unlock" => \A s \in live : ReturnHas(ret[t], s)

\* C3 witness: PluginsSymbols is about to return two symbols registered
\* before, while the other goroutine is inside lock() as well
C3_Witness ==
  \E t, u \in Threads :
    /\ t # u
    /\ pc[t] = "unlock"
    /\ ret[t].op = "PluginsSymbols"
    /\ Cardinality(live) = 2
    /\ pc[u] \in {"lock_RLock2", "lock_for", "locked"}

\* the PluginGroup objects allocated for the symbol type T
ObjectsOf(T) == {i \in 1..Len(heap) : heap[i].type = T}

\* C4: per symbol type at most one PluginGroup object exists, and every call
\* of Group[T]() returns that one object, also when the first lookups race.
C4_OneGroupPerType ==
  \A T \in Types :
    /\ Cardinality(ObjectsOf(T)) <= 1
    /\ returned[T] \subseteq ObjectsOf(T)
    /\ Cardinality(returned[T]) <= 1
    /\ \A t \in Threads :
         (gpc[t] = "Group_return" /\ glocal[t].t = T) =>
           (glocal[t].group = groups[T] /\ groups[T] \in ObjectsOf(T))

\* C4 witness: two goroutines inside their first lookup of one type, the
\* first about to return the object it created, the second still at Lock
C4_Witness ==
  \E t, u \in Threads :
    /\ t # u
    /\ gpc[t] = "Group_return"
    /\ gpc[u] = "Group_Lock"
    /\ glocal[t].t = glocal[u].t
    /\ returned[glocal[t].t] = {}
    /\ groups[glocal[t].t] # 0

\* C5: the resolver's working list and its result are permutations of the
\* list it was given, also with several entries of one owner.
C5_SortPermutes ==
  /\ IsPermutation(symbols, srt.input)
  /\ srt.pc # "idle" => IsPermutation(srt.syms, srt.input)

\* C5 witness: a finished run that reordered a list with two entries of one owner
C5_Witness ==
  /\ srt.pc = "done"
  /\ Len(symbols) = 3
  /\ ~DistinctOwners(symbols)
  /\ symbols # srt.input
  /\ ~Ascending(symbols)

\* C6: entries without placement and with distinct owners resolve to the
\* owners in ascending order, whatever the registration order.
C6_Lexicographic ==
  (/\ srt.pc = "done"
   /\ DistinctOwners(srt.input)
   /\ \A i \in 1..Len(srt.input) : srt.input[i].Placement = <<>>)
  => StrictlyAscending(symbols)

\* C6 witness: three such entries registered in descending order, resolved
C6_Witness ==
  /\ srt.pc = "done"
  /\ Len(srt.input) = 3
  /\ DistinctOwners(srt.input)
  /\ \A i \in 1..3 : srt.input[i].Placement = <<>>
  /\ StrLess(srt.input[3].Plugin, srt.input[2].Plugin)
  /\ StrLess(srt.input[2].Plugin, srt.input[1].Plugin)

\* exactly the entry e of s carries the placement p, the others carry none
OnlyDirective(s, e, p) ==
  /\ e \in Range(s)
  /\ e.Placement = p
  /\ \A x \in Range(s) : x # e => x.Placement = <<>>

\* C7: processing an entry placed "<" moves that entry to index 0, one
\* placed ">" moves it to the last index, the others keeping their order;
\* with one such entry and no other placement the result is that entry
\* first (last) and the rest ascending.
C7_FrontBack ==
  /\ Stepped =>
       /\ Processed.Placement = <<"<">> =>
            /\ srt.syms[1] = Processed
            /\ Without(srt.syms, Processed) = Without(srt.prev, Processed)
       /\ Processed.Placement = <<">">> =>
            /\ srt.syms[Len(srt.syms)] = Processed
            /\ Without(srt.syms, Processed) = Without(srt.prev, Processed)
  /\ srt.pc = "done" =>
       \A e \in Range(symbols) :
         /\ OnlyDirective(symbols, e, <<"<">>) =>
              (symbols[1] = e /\ Ascending(Without(symbols, e)))
         /\ OnlyDirective(symbols, e, <<">">>) =>
              (symbols[Len(symbols)] = e /\ Ascending(Without(symbols, e)))

\* C8: processing an entry placed "<X" (">X"), X owned by an entry of the
\* list and not the entry's own owner, leaves the entry directly before
\* (after) X, the others keeping their order.
C8_Relative ==
  (Stepped /\ (IsBefore(Processed.Placement) \/ IsAfter(Processed.Placement))) =>
    LET X == Tail(Processed.Placement) IN
    (/\ X # Processed.Plugin
     /\ HasOwner(srt.prev, X))
    =>
    /\ IsBefore(Processed.Placement) =>
         /\ DirectlyBefore(srt.syms, Processed, X)
         /\ Without(srt.syms, Processed) = Without(srt.prev, Processed)
    /\ IsAfter(Processed.Placement) =>
         /\ DirectlyAfter(srt.syms, Processed, X)
         /\ Without(srt.syms, Processed) = Without(srt.prev, Processed)

\* the placement of e names a plugin of s other than e's own
NamesOther(s, e) ==
  /\ IsBefore(e.Placement) \/ IsAfter(e.Placement)
  /\ Tail(e.Placement) # e.Plugin
  /\ HasOwner(s, Tail(e.Placement))

\* e sits where its placement asks in s
PlacedAsAsked(s, e) ==
  /\ IsBefore(e.Placement) => DirectlyBefore(s, e, Tail(e.Placement))
  /\ IsAfter(e.Placement) => DirectlyAfter(s, e, Tail(e.Placement))

\* C9 as claimed: in the resolved list every symbol placed "<foo" (">foo")
\* sits directly before (after) the plugin foo, whatever the placements of
\* the other entries.
C9_AlwaysPlacedAsAsked ==
  srt.pc = "done" =>
    \A e \in Range(symbols) : NamesOther(symbols, e) => PlacedAsAsked(symbols, e)

\* no other entry of s whose owner is e's owner or sorts after it carries a
\* placement
LastWord(s, e) ==
  \A x \in Range(s) :
    (x # e /\ ~StrLess(x.Plugin, e.Plugin)) => x.Placement = <<>>

\* an entry of e's plugin sits where the placement of e asks in s
PluginPlacedAsAsked(s, e) ==
  /\ IsBefore(e.Placement) =>
       \E x \in Range(s) :
         x.Plugin = e.Plugin /\ DirectlyBefore(s, x, Tail(e.Placement))
  /\ IsAfter(e.Placement) =>
       \E x \in Range(s) :
         x.Plugin = e.Plugin /\ DirectlyAfter(s, x, Tail(e.Placement))

\* C9 amended: in the resolved list a symbol of the plugin of a symbol
\* placed "<foo" (">foo") sits directly before (after) a symbol of the
\* plugin foo, provided no other entry whose plugin name equals or sorts
\* after that plugin's name carries a placement; it is the placed symbol
\* itself when no other entry has its plugin name.
C9_PlacedAsAskedWhenLast ==
  srt.pc = "done" =>
    \A e \in Range(symbols) :
      (NamesOther(symbols, e) /\ LastWord(symbols, e)) =>
        /\ PluginPlacedAsAsked(symbols, e)
        /\ (\A x \in Range(symbols) : x # e => x.Plugin # e.Plugin)
             => PlacedAsAsked(symbols, e)

\* C9 witness: "c" placed before "a" after "a" itself was sent to the back
C9_Witness ==
  /\ srt.pc = "done"
  /\ Len(symbols) = 3
  /\ symbols[2].Plugin = <<"c">>
  /\ symbols[2].Placement = <<"<", "a">>
  /\ symbols[3].Plugin = <<"a">>
  /\ symbols[3].Placement = <<">">>
  /\ LastWord(symbols, symbols[2])

\* the placement of e names a plugin that s does not hold
NamesAbsent(s, e) ==
  /\ IsBefore(e.Placement) \/ IsAfter(e.Placement)
  /\ ~HasOwner(s, Tail(e.Placement))

\* C10: a placement "<X" or ">X" whose X no entry owns is ignored: the move
\* is within the list, the working list stays as it is, and with no other
\* placement in the list the result is the ascending owner order.
C10_AbsentAnchorIgnored ==
  /\ (Stepped /\ NamesAbsent(srt.prev, Processed)) =>
       LET idx == findIdx(srt.prev, Processed.Plugin) IN
       /\ targetPos(srt.prev, Processed, idx) \in 0..Len(srt.prev)
       /\ srt.syms = srt.prev
  /\ srt.pc = "done" =>
       \A e \in Range(symbols) :
         (/\ NamesAbsent(symbols, e)
          /\ \A x \in Range(symbols) : x # e => x.Placement = <<>>)
         => Ascending(symbols)

\* C10 witness: the middle one of three entries named an absent plugin, the
\* entries were registered out of order, the run is finished
C10_Witness ==
  /\ srt.pc = "done"
  /\ Len(symbols) = 3
  /\ symbols[2].Placement = <<">", "z">>
  /\ symbols[1].Placement = <<>>
  /\ symbols[3].Placement = <<>>
  /\ DistinctOwners(symbols)
  /\ srt.input # symbols

\* the placement of e names e's own plugin
NamesSelf(e) ==
  /\ IsBefore(e.Placement) \/ IsAfter(e.Placement)
  /\ Tail(e.Placement) = e.Plugin

\* C11: processing an entry placed "<self" or ">self", self being the
\* entry's own owner, leaves the working list unchanged at every index.
C11_SelfIsNoOp ==
  (Stepped /\ NamesSelf(Processed)) => srt.syms = srt.prev

\* C11 witness: an entry placed ">self" was processed while it was not the
\* last of a list of three
C11_Witness ==
  /\ Stepped
  /\ Len(srt.prev) = 3
  /\ NamesSelf(Processed)
  /\ IsAfter(Processed.Placement)
  /\ srt.prev[3] # Processed
  /\ srt.syms = srt.prev

\* the resolver run on the list s, sort.Slice being the insertion sort
resolve(s) == sortLoop(insertionSort(s), insertionSort(s), 1)

\* C12: the resolver run on its own output reproduces that output,
\* sort(sort(L)) = sort(L), for every list L Register calls can leave.
C12_Idempotent ==
  srt.pc = "done" => resolve(resolve(srt.input)) = resolve(srt.input)

\* C13: an owner already present in the group is never registered again
\* (the call panics and leaves the group as it was), so the owners of a
\* group are pairwise distinct in every reachable state.
C13_OwnersDistinct ==
  /\ DistinctOwners(symbols)
  /\ \A t \in Threads :
       pc[t] = "Register" => ~HasOwner(symbols, sym[t].Plugin)

\* the value is nil, or the group's type is neither function nor interface
InvalidSymbol(kind, v) == v = NilSym \/ kind \notin {"func", "interface"}

\* C14: a Register call handed an invalid value panics to its caller and
\* leaves the group unchanged: no entry appended, the flag as it was.
C14_InvalidSymbolPanics ==
  [][\A t \in Threads :
       (/\ pc[t] = "idle"
        /\ pc'[t] \in {"panic", "Register"}
        /\ InvalidSymbol(kindT, args'[t].symbol))
       => (/\ pc'[t] = "panic"
           /\ args'[t].panic \in {"symbol must not be nil",
                                  "symbol must be func or interface"}
           /\ ordered' = ordered
           /\ symbols' = symbols)]_vars

\* C14 witness: Register of a nil function has panicked on a Clean group
\* that holds an entry
C14_Witness ==
  \E t \in Threads :
    /\ pc[t] = "panic"
    /\ kindT = "func"
    /\ args[t].symbol = NilSym
    /\ args[t].panic = "symbol must not be nil"
    /\ ordered
    /\ Len(symbols) = 1

\* C15: every entry of the group has a non-empty owner: a registration
\* whose owner is empty after derivation and options adds no entry.
C15_OwnerNonEmpty ==
  \A i \in 1..Len(symbols) : symbols[i].Plugin # <<>>

\* the options supply an owner name
SuppliesOwner(opts) ==
  \E i \in 1..Len(opts) : opts[i].opt = "WithPlugin" /\ opts[i].arg # <<>>

\* C16: Register fails for missing owner information only when the name
\* could not be taken from the caller and none was supplied explicitly; with
\* an explicit name it succeeds whatever the caller discovery gives.
C16_ExplicitOwnerSucceeds ==
  \A t \in Threads :
    (/\ pc[t] = "panic"
     /\ args[t].panic \in {"unable to discover caller for discovering plugin name",
                            "cannot determine plugin name"})
    => ~SuppliesOwner(args[t].opts)

\* C17: no reader method panics; on a group without entries the list
\* methods return an empty list, and PluginSymbol of a name no entry carries
\* returns the zero value.
C17_QueriesNeverPanic ==
  \A t \in Threads :
    pc[t] = "unlock" =>
      /\ ret[t].op # "panic"
      /\ (ret[t].op \in {"Symbols", "PluginsSymbols", "Plugins"} /\ symbols = <<>>)
           => ret[t].val = <<>>
      /\ (ret[t].op = "PluginSymbol" /\ ~HasOwner(symbols, ret[t].val[1]))
           => ret[t].val[2] = NilSym

\* C19: Restore(s) leaves the group with the entry list, in the same
\* sequence, and the flag it had when s := Backup() was called, whatever
\* Register, Clear and read calls came in between.
C19_RoundTrip ==
  gmem.op = "Restore" =>
    /\ Value(gmem.arrays, gmem.symbols) = gmem.atBackup.symbols
    /\ gmem.ordered = gmem.atBackup.ordered

\* C19 witness: Restore brings back a list that was backed up unsorted,
\* three calls after the Backup
C19_Witness ==
  /\ gmem.op = "Restore"
  /\ gmem.since = 3
  /\ Len(gmem.atBackup.symbols) = 2
  /\ ~gmem.atBackup.ordered
  /\ gmem.atBackup.symbols[1].Plugin = <<"b">>
  /\ gmem.atBackup.symbols[2].Plugin = <<"a">>

\* C20: the stash holds what Backup saved whatever is done to the group
\* afterwards, Restore of that stash included, so restoring it twice gives
\* the same group state.
C20_StashIndependent ==
  /\ Value(gmem.arrays, gmem.stash.symbols) = gmem.atBackup.symbols
  /\ gmem.stash.ordered = gmem.atBackup.ordered

\* C20 witness: the second Restore of a stash taken of an unsorted list, the
\* group sorted in between
C20_Witness ==
  /\ gmem.op = "Restore"
  /\ gmem.restores = 2
  /\ gmem.since = 3
  /\ ~gmem.atBackup.ordered
  /\ Len(gmem.atBackup.symbols) = 2
  /\ gmem.atBackup.symbols[1].Plugin = <<"b">>
  /\ gmem.atBackup.symbols[2].Plugin = <<"a">>

\* C18: a sequence a query returned is a copy: a store into it by the
\* caller leaves the group's list as it was, and a later registration or
\* re-sorting of the group leaves the returned sequence as it was.
C18_DefensiveCopies ==
  [][(v0.n < v0'.n) =>
       /\ (v0'.op = "scribble") =>
            Value(v0'.arrays, v0'.plugins) = Value(v0.arrays, v0.plugins)
       /\ (v0'.op \in {"RegisterPlugin", "New"}) =>
            Value(v0'.arrays, v0'.out) = v0.atReturn]_vars

\* ---------------------------------------------------- Clean and Dirty groups
\* the specification's names for the two values of g.ordered
Clean == ordered
Dirty == ~ordered

\* the reader methods that return a list
ListQueries == {"Symbols", "Plugins", "PluginsSymbols"}

\* goroutine t takes the step that computes a reader method's result
Answers(t) == pc[t] = "locked" /\ pc'[t] = "unlock"

\* C21 as stated: when Clear() returns, the group holds no entries and is
\* Clean.
C21_ClearLeavesClean ==
  [][(\E t \in Threads : ClearReturn(t)) => (symbols' = <<>> /\ Clean')]_vars

\* C21 (amended): when Clear() returns, the group holds no entries and is
\* Dirty (g.ordered is false); the first reader to take the write lock after
\* it runs sort() once over the empty list and leaves the group Clean, and a
\* list query answered before the next write returns the empty sequence.
C21_ClearLeavesDirtyEmpty ==
  [][/\ (\E t \in Threads : ClearReturn(t)) => (symbols' = <<>> /\ Dirty')
     /\ \A t \in Threads :
          (LockSort(t) /\ episode = [write |-> "Clear", sorts |-> 0])
            => (episode'.sorts = 1 /\ Clean' /\ symbols' = <<>>)
     /\ \A t \in Threads :
          (Answers(t) /\ episode.write = "Clear")
            => /\ episode.sorts = 1
               /\ ret'[t].op \in ListQueries => ret'[t].val = <<>>]_vars

\* a list query is answered after a Clear(), once sort() has run
C21_Witness ==
  \E t \in Threads :
    /\ pc[t] = "unlock"
    /\ ret[t] = [op |-> "Plugins", val |-> <<>>]
    /\ episode = [write |-> "Clear", sorts |-> 1]
    /\ Clean

\* ------------------------------------------------------ a newly created group
\* the step of Group[T]() that allocates a PluginGroup
Allocates == Len(heap') = Len(heap) + 1

\* C22 as stated: the group the first lookup of a type creates holds no
\* entries and is Clean.
C22_FreshGroupClean ==
  [][Allocates => (heap'[Len(heap')].symbols = <<>> /\ heap'[Len(heap')].ordered)]_vars

\* C22 (amended): the group the first lookup of a type creates holds no
\* entries and is Dirty: its ordered flag has the zero value, false.
C22_FreshGroupDirty ==
  [][Allocates => (heap'[Len(heap')].symbols = <<>> /\ ~heap'[Len(heap')].ordered)]_vars

\* a lookup has returned the group it created
C22_Witness ==
  \E T \in Types :
    /\ groups[T] # 0
    /\ groups[T] \in returned[T]
    /\ heap[groups[T]].symbols = <<>>
    /\ ~heap[groups[T]].ordered

\* ------------------------------------------------ the Clean/Dirty transitions
\* a write to the group returns
RegisterReturns == \E t \in Threads : RegisterReturn(t)
ClearReturns == \E t \in Threads : ClearReturn(t)
RestoreReturns == \E t \in Threads : RestoreReturn(t)

\* C23 as stated: when a Register, Clear or Restore returns the group is
\* Dirty, and a reader that sorts a Dirty group leaves it Clean.
C23_EveryWriteLeavesDirty ==
  [][/\ (RegisterReturns \/ ClearReturns \/ RestoreReturns) => Dirty'
     /\ \A t \in Threads : (LockSort(t) /\ Dirty) => Clean']_vars

\* C23 (amended): when a Register or Clear returns the group is Dirty; when
\* Restore(s) returns the group has the flag saved in s, Clean or Dirty; a
\* reader that finds the group Dirty releases its read lock and asks for the
\* write lock, a reader that holds the write lock on a Dirty group runs sort()
\* and leaves the group Clean and resolved, and no reader answers a query on a
\* Dirty group.
C23_CleanDirtyMachine ==
  [][/\ (RegisterReturns \/ ClearReturns) => Dirty'
     /\ RestoreReturns => (ordered' = stash.ordered /\ symbols' = stash.symbols)
     /\ \A t \in Threads :
          /\ (LockFor(t) /\ Dirty) => (pc'[t] = "lock_Lock" /\ t \notin mu'.r)
          /\ (LockSort(t) /\ Dirty)
               => (Clean' /\ symbols' \in sort(symbols)
                     /\ episode'.sorts = episode.sorts + 1)
          /\ Answers(t) => Clean]_vars

\* Restore has returned and left a group with entries Clean
C23_Witness ==
  /\ episode = [write |-> "Restore", sorts |-> 0]
  /\ Clean
  /\ symbols # <<>>
  /\ \A t \in Threads : pc[t] = "idle"

\* ------------------------------------------------------------ dirty episodes
\* what the history of an episode says about the group
EpisodeInvariant ==
  /\ episode.sorts \in {0, 1}
  /\ episode.sorts = 1 => Clean
  /\ (episode.write \in {"", "Register", "Clear"} /\ Clean) => episode.sorts = 1
  /\ \A t \in Threads : pc[t] = "lock_sort" => (mu.w = t /\ mu.r = {})

\* C25: between two writes g.sort() runs at most once: it runs only in a
\* goroutine that holds the write lock alone, a group that a Register or Clear
\* made Dirty is Clean again exactly when one reader has sorted it, and a
\* reader that takes the write lock of a Clean group leaves the group as it is.
C25_OneSortPerEpisode ==
  /\ []EpisodeInvariant
  /\ [][\A t \in Threads :
         LockSort(t) =>
           IF Dirty
           THEN episode'.sorts = 1 /\ Clean'
           ELSE UNCHANGED <<ordered, symbols, episode>>]_vars

\* two readers contended for a Dirty group with entries: one has sorted it,
\* the other one holds the write lock and finds it Clean
C25_Witness ==
  \E t, u \in Threads :
    /\ t # u
    /\ pc[t] = "lock_sort"
    /\ pc[u] \in {"lock_RLock2", "lock_for", "locked", "unlock"}
    /\ episode = [write |-> "Register", sorts |-> 1]
    /\ Clean

\* --------------------------------------------------------- readers complete
\* goroutine t is inside lock() or inside the reader method that called it
Reading(t) ==
  pc[t] \in {"lock_RLock", "lock_for", "lock_Lock", "lock_sort",
             "lock_RLock2", "locked", "unlock"}

\* a Register, Clear or Restore is under way
Writing == \E t \in Threads : pc[t] \in {"Register", "Clear", "Restore"}

\* C24 as stated: a reader that entered lock() returns, whatever the other
\* goroutine does.
C24_ReadersReturn == \A t \in Threads : Reading(t) ~> pc[t] = "idle"

\* C24 (amended): when the writes to the group come to an end, a reader that
\* entered lock() returns.
C24_ReadersReturnOnceWritesEnd ==
  (<>[]~Writing) => \A t \in Threads : Reading(t) ~> pc[t] = "idle"

\* a reader is in the retry loop of lock(), about to ask for the write lock
\* of a group that a Clear() of the other goroutine has made Dirty
C24_Witness ==
  \E t \in Threads :
    /\ pc[t] = "lock_Lock"
    /\ episode.write = "Clear"
    /\ ret[t] = NoRet
    /\ calls = 1

\* ------------------------------------------------------- independent groups
\* goroutine t holds the write lock of the group it called a method on
Holds(t) == gpc[t] = "g_locked"

\* the entries or the flag of group object o change in this step
Touched(o) ==
  heap'[o].ordered # heap[o].ordered \/ heap'[o].symbols # heap[o].symbols

\* what holds of the registry and its groups in every state
RegistryInvariant ==
  /\ \A T1, T2 \in Types : T1 # T2 => returned[T1] \cap returned[T2] = {}
  /\ \A t \in Threads :
       groupsmu = t <=> gpc[t] \in {"Group_lookup", "Group_if", "Group_return"}
  /\ \A t \in Threads :
       (gpc[t] = "g_Lock" /\ \A u \in Threads : Holds(u) => use[u].T # use[t].T)
         => ENABLED UseLock(t)
  /\ \A t \in Threads :
       (gpc[t] = "Group_Lock" /\ groupsmu = 0) => ENABLED GroupLock(t)

\* C26: lookups for different types return different group objects; the
\* registry mutex is held during the lookup-or-insert of Group[T]() and at no
\* other time; a goroutine that asks for the lock of a group gets it unless a
\* goroutine holds the lock of a group of the same type, and a lookup gets the
\* registry mutex whatever group locks are held; the entries and the flag of a
\* group change only in a method called on the group of that type.
C26_GroupsIndependent ==
  /\ []RegistryInvariant
  /\ [][\A o \in 1..Len(heap) :
          Touched(o) =>
            \E t \in Threads :
              UseUnlock(t) /\ use[t].g = o /\ use[t].T = heap[o].type]_vars

\* two goroutines hold the write locks of the groups of two types at once,
\* one group has entries and the other has none
C26_Witness ==
  \E t, u \in Threads :
    /\ Holds(t) /\ Holds(u)
    /\ use[t].T # use[u].T
    /\ heap[use[t].g].symbols # <<>>
    /\ heap[use[u].g].symbols = <<>>
    /\ use[u].op = "lock"

Asked(name) ==
  IF named.last.op = "Func" THEN name = named.last.arg
  ELSE HasPrefix(name, named.last.arg)

\* the entries of a plugin's symbol map the last query asked for that are
\* functions
Wanted(plug) == {e \in plug.symbolmap : Asked(e.name) /\ e.sym.Kind = "func"}

\* out lists the wanted symbols of the plugins, plugin by plugin in the order
\* of the list plugins: from[k] is the plugin that out[k] is taken from
InGroupOrder(out, plugins) ==
  \E from \in [1..Len(out) -> 1..Len(plugins)] :
    /\ \A k \in 1..(Len(out) - 1) : from[k] <= from[k + 1]
    /\ \A k \in 1..Len(out) : \E e \in Wanted(plugins[from[k]]) : e.sym = out[k]
    /\ \A i \in 1..Len(plugins) :
         /\ Cardinality({k \in 1..Len(out) : from[k] = i}) = Cardinality(Wanted(plugins[i]))
         /\ \A e \in Wanted(plugins[i]) : \E k \in 1..Len(out) : from[k] = i /\ out[k] = e.sym

\* C28: what Func(name) and FuncPrefix(prefix) return are functions only, they
\* are the symbols with that name (with a name of that prefix) of the plugins
\* of the group, each once, and they come plugin by plugin in the order of the
\* group's plugin list.
C28_FuncInGroupOrder ==
  named.last.op \in {"Func", "FuncPrefix"} =>
    /\ \A k \in 1..Len(named.last.out) : named.last.out[k].Kind = "func"
    /\ InGroupOrder(named.last.out, named.objs[named.last.pg].plugins)

\* FuncPrefix has returned the functions of two plugins, the ones of the
\* plugin placed at the front first, and has left out a pointer
C28_Witness ==
  /\ named.last.op = "FuncPrefix"
  /\ named.last.arg = <<"a">>
  /\ Len(named.last.out) = 3
  /\ named.last.out[1].F[1] = <<"b">>
  /\ named.last.out[3].F[1] = <<"a">>
  /\ \E e \in named.objs[named.last.pg].plugins[1].symbolmap : e.sym.Kind = "ptr"

\* ------------------------------------------- RegisterPlugin, duplicate symbols
\* the last step was a call of v0 RegisterPlugin
RegisterPluginCalled ==
  named'.n = named.n + 1 /\ named'.last.op = "RegisterPlugin"

\* the registration lists one symbol name twice
ListsNameTwice(pspec) ==
  \E i, j \in 1..Len(pspec.Symbols) :
    i # j /\ pspec.Symbols[i].Name = pspec.Symbols[j].Name

\* the registration lists one name twice among its symbols that are functions
\* or pointers and that have a name
IndexesNameTwice(pspec) ==
  \E i, j \in 1..Len(pspec.Symbols) :
    /\ i # j
    /\ pspec.Symbols[i].Name = pspec.Symbols[j].Name
    /\ pspec.Symbols[i].Name # <<>>
    /\ pspec.Symbols[i].Kind \in {"func", "ptr"}
    /\ pspec.Symbols[j].Kind \in {"func", "ptr"}

\* the call left pluginGroups and every group as they were
RegistryUnchanged ==
  named'.pluginGroups = named.pluginGroups /\ named'.objs = named.objs

\* C30 as stated: a registration that lists one symbol name twice panics with
\* the duplicate-symbol message and leaves the registry unchanged.
C30_DuplicateNamePanics ==
  [][(RegisterPluginCalled /\ ListsNameTwice(named'.last.arg))
       => (named'.last.panic = "duplicate symbol" /\ RegistryUnchanged)]_vars

\* C30 (amended): a registration panics with the duplicate-symbol message
\* exactly when it lists one name twice among the symbols it indexes, the
\* named functions and pointers, and the panic leaves the registry unchanged:
\* no group is created and no plugin is appended.
C30_IndexedDuplicatePanics ==
  [][RegisterPluginCalled =>
       /\ named'.last.panic = "duplicate symbol" <=> IndexesNameTwice(named'.last.arg)
       /\ named'.last.panic # "" => RegistryUnchanged]_vars

\* the first registration in a group has panicked for a duplicate symbol:
\* there is no group of that name
C30_Witness ==
  /\ named.last.op = "RegisterPlugin"
  /\ named.last.panic = "duplicate symbol"
  /\ named.pluginGroups[named.last.arg.Group] = 0
  /\ \E g \in GroupNames : named.pluginGroups[g] # 0

\* ------------------------------------------------------- the v3 projections
\* goroutine t holds the read lock and the result of the query op
Got(t, op) == pc[t] = "unlock" /\ ret[t].op = op

\* the value of the first entry of ps whose owner is name, or the zero value
FirstOf(ps, name) ==
  IF \E i \in 1..Len(ps) : ps[i].Plugin = name
  THEN ps[CHOOSE i \in 1..Len(ps) :
            ps[i].Plugin = name /\ \A j \in 1..(i - 1) : ps[j].Plugin # name].S
  ELSE NilSym

\* C29: two readers that hold the read lock together query an unwritten
\* group: Plugins() and Symbols() are index by index the owners and the
\* values of PluginsSymbols(), and PluginSymbol(o) is the value of the first
\* entry of PluginsSymbols() whose owner is o, or the zero value.
C29_Projections ==
  \A t, u \in Threads :
    Got(t, "PluginsSymbols") =>
      LET ps == ret[t].val IN
      /\ ps = symbols
      /\ Got(u, "Plugins") =>
           /\ Len(ret[u].val) = Len(ps)
           /\ \A i \in 1..Len(ps) : ret[u].val[i] = ps[i].Plugin
      /\ Got(u, "Symbols") =>
           /\ Len(ret[u].val) = Len(ps)
           /\ \A i \in 1..Len(ps) : ret[u].val[i] = ps[i].S
      /\ Got(u, "PluginSymbol") => ret[u].val[2] = FirstOf(ps, ret[u].val[1])

\* one reader holds PluginsSymbols() of a group with two entries of one
\* owner while the other one holds PluginSymbol of that owner
C29_Witness ==
  \E t, u \in Threads :
    /\ Got(t, "PluginsSymbols")
    /\ Got(u, "PluginSymbol")
    /\ Len(ret[t].val) = 2
    /\ ret[t].val[1].Plugin = ret[u].val[1]
    /\ ret[t].val[2].Plugin = ret[u].val[1]
    /\ ret[t].val[1].S # ret[t].val[2].S

\* ------------------------------------------ RegisterPlugin without symbols
\* C31: a call of v0 RegisterPlugin with an empty Symbols list is ignored: it
\* creates no group and leaves every group's plugin list and unsorted flag as
\* they were.
C31_EmptyRegistrationIgnored ==
  [][(RegisterPluginCalled /\ named'.last.arg.Symbols = <<>>)
       => RegistryUnchanged]_vars

\* ------------------------------------------------------------ dyn.Discover
\* the .so files among the files fs
Plugs(fs) == {f \in fs : ~Files[f].isdir /\ Files[f].ext = ".so"}

\* the files located directly in path
InPath == Range(Files[Root].children)

\* the files plugin.Open was called on
Opened == Range(dyn.opened)

\* C32: when every .so file can be loaded, Discover(path, false) has loaded
\* exactly the .so files located directly in path, and Discover(path, true)
\* those and the .so files of the subdirectories
C32_DiscoverLoads ==
  (dyn.pc = "done" /\ dyn.fails = {}) =>
    Opened = IF dyn.recursive THEN Plugs(dyn.present)
             ELSE Plugs(dyn.present \cap InPath)

\* C33: a recursive Discover has attempted to load every .so file of the tree,
\* whichever of them failed to load
C33_FailureKeptSilent ==
  (dyn.pc = "done" /\ dyn.recursive) => Plugs(dyn.present) \subseteq Opened

\* ------------------------------------------------------------------- move
\* move has returned
Moved == calc.fn = "move" /\ calc.pc = "done"

\* the index the moved element ends at
MoveDest == IF calc.in.to <= calc.in.from THEN calc.in.to ELSE calc.in.to - 1

\* the index the element at index k, not the moved one, ends at
MoveShift(k) ==
  IF calc.in.from < k /\ k <= MoveDest THEN k - 1
  ELSE IF MoveDest <= k /\ k < calc.in.from THEN k + 1
  ELSE k

\* how often e occurs in s
Occurs(s, e) == Cardinality({k \in 1..Len(s) : s[k] = e})

\* C34: move(s, from, to) returns a slice of the same length and the same
\* multiset of elements; the moved element is at index to when to <= from and
\* at to-1 when to > from; the elements between the two positions are shifted
\* by one, the others keep their index, and the elements other than the moved
\* one keep their relative order
C34_MoveSlides ==
  Moved =>
    LET s == calc.in.s
        r == calc.out
        others == (0..(Len(s) - 1)) \ {calc.in.from}
    IN /\ Len(r) = Len(s)
       /\ \A e \in Range(s) \cup Range(r) : Occurs(r, e) = Occurs(s, e)
       /\ r[MoveDest + 1] = s[calc.in.from + 1]
       /\ \A k \in others : r[MoveShift(k) + 1] = s[k + 1]
       /\ \A k \in others :
            (k < calc.in.from /\ k < MoveDest) \/ (k > calc.in.from /\ k > MoveDest)
              => MoveShift(k) = k
       /\ \A j, k \in others : j < k => MoveShift(j) < MoveShift(k)

\* C34 witness: the first of three elements was moved to the end, to == len(s)
C34_Witness ==
  /\ Moved
  /\ calc.in.s = <<1, 2, 3>>
  /\ calc.in.from = 0
  /\ calc.in.to = 3
  /\ calc.out = <<2, 3, 1>>

\* ------------------------------------------------- the order of directives
\* the placements of s are all "", "<" or ">"
NoAnchors(s) ==
  \A i \in 1..Len(s) : s[i].Placement \in {<<>>, <<"<">>, <<">">>}

\* the entries of s with placement p, in their order
Placed(s, p) == SelectSeq(s, LAMBDA x : x.Placement = p)

\* the owners of s descend strictly
StrictlyDescending(s) ==
  \A i, j \in 1..Len(s) : i < j => StrLess(s[j].Plugin, s[i].Plugin)

\* C35: the loop of sort() takes the directives in ascending order of their
\* owners, whatever the registration order was; so a group of distinct owners
\* whose placements are all "", "<" or ">" is resolved to its "<" entries in
\* descending owner order, then its entries without placement in ascending
\* order, then its ">" entries in ascending order
C35_DirectivesInOwnerOrder ==
  /\ srt.pc = "loop" => Ascending(symbols) /\ IsPermutation(symbols, srt.input)
  /\ (srt.pc = "done" /\ DistinctOwners(srt.input) /\ NoAnchors(srt.input)) =>
       /\ symbols = Placed(symbols, <<"<">>) \o Placed(symbols, <<>>)
                      \o Placed(symbols, <<">">>)
       /\ StrictlyDescending(Placed(symbols, <<"<">>))
       /\ StrictlyAscending(Placed(symbols, <<>>))
       /\ StrictlyAscending(Placed(symbols, <<">">>))
       /\ IsPermutation(symbols, srt.input)

\* C35 witness: a, c and b were registered in this order, a and b with "<" and
\* c with ">": the resolved order is b, a, c
C35_Witness ==
  /\ srt.pc = "done"
  /\ [k \in 1..Len(srt.input) |-> <<srt.input[k].Plugin, srt.input[k].Placement>>]
       = << <<(<<"a">>), <<"<">>>>, <<(<<"c">>), <<">">>>>, <<(<<"b">>), <<"<">>>> >>
  /\ [k \in 1..Len(symbols) |-> symbols[k].Plugin] = << <<"b">>, <<"a">>, <<"c">> >>

\* ------------------------------------------------- registrations commute
\* the second run has registered every entry and has read after that
BothRead ==
  /\ calc.fn = "Register"
  /\ calc.out.run = 2
  /\ calc.out.left = {}
  /\ calc.out.fresh

\* the owners the run has registered so far, in registration order
Registered == SelectSeq(calc.out.log, LAMBDA x : x # <<"read">>)

\* C36: two runs that register the same entries of pairwise distinct owners,
\* in any order and with reads in between, read the same order after their
\* last registration
C36_RegistrationsCommute == BothRead => calc.out.read = calc.out.first

\* C36 witness: three entries with placements, registered in two different
\* orders, the second run reading between its registrations, and the resolved
\* order is neither registration order
C36_Witness ==
  /\ BothRead
  /\ Cardinality(calc.in) = 3
  /\ \E s \in calc.in : s.Placement = <<"<", "c">>
  /\ \E s \in calc.in : s.Placement = <<">">>
  /\ Registered # calc.out.order
  /\ Len(calc.out.log) = 6
  /\ Plugins(calc.out.g) \notin {Registered, calc.out.order}

\* ------------------------------------------------ lazy and eager resolution
\* the read path of the lazy group: lock() sorts if the group is not ordered,
\* sort.Slice being the insertion sort
lockStable(g) ==
  IF lockIf(g) THEN [ordered |-> TRUE, symbols |-> resolve(g.symbols)] ELSE g

\* the eager group: every write sorts before it returns, a read returns the list
EagerRegister(e, s) == resolve(Append(e, s))
EagerClear(e) == resolve(<<>>)
EagerBackup(e) == e
EagerRestore(e, s) == resolve(s)
EagerRead(e) == e

\* the entries the n-th call can register: any owner, placed nowhere, at the
\* front, at the back, or next to a
TwinEntries(n) ==
  {[S |-> n, Plugin |-> p, Placement |-> q] :
     p \in PluginNames, q \in {<<>>, <<"<">>, <<">">>, <<"<", "a">>, <<">", "a">>}}

\* both groups empty, both stashes the zero value
InitTwin ==
  /\ InitIdle
  /\ calc = [pc |-> "run", fn |-> "twin", in |-> <<>>,
             out |-> [n |-> 0, op |-> "", lazy |-> ZeroGroup, eager |-> <<>>,
                      lazyStash |-> ZeroGroup, eagerStash |-> <<>>,
                      lazyRead |-> <<>>, eagerRead |-> <<>>]]

TwinCall == calc.fn = "twin" /\ calc.out.n < MaxTwinOps

\* the call op has returned in both groups
Twins(op, out) ==
  /\ calc' = [calc EXCEPT !.out = [out EXCEPT !.n = @ + 1, !.op = op]]
  /\ UNCHANGED <<groupVars, episode, srt, registryVars, gmem, v0, named, dyn>>

TwinRegister ==
  /\ TwinCall
  /\ \E s \in TwinEntries(calc.out.n + 1) :
       Twins("Register", [calc.out EXCEPT !.lazy = Register(@, s),
                                          !.eager = EagerRegister(@, s)])

TwinClear ==
  /\ TwinCall
  /\ Twins("Clear", [calc.out EXCEPT !.lazy = Clear(@), !.eager = EagerClear(@)])

TwinBackup ==
  /\ TwinCall
  /\ Twins("Backup", [calc.out EXCEPT !.lazyStash = Backup(calc.out.lazy),
                                      !.eagerStash = EagerBackup(calc.out.eager)])

TwinRestore ==
  /\ TwinCall
  /\ Twins("Restore",
           [calc.out EXCEPT !.lazy = Restore(@, calc.out.lazyStash),
                            !.eager = EagerRestore(@, calc.out.eagerStash)])

\* the read g.PluginsSymbols() on both
TwinRead ==
  /\ TwinCall
  /\ LET g == lockStable(calc.out.lazy) IN
     Twins("read", [calc.out EXCEPT !.lazy = g,
                                    !.lazyRead = PluginsSymbols(g),
                                    !.eagerRead = EagerRead(calc.out.eager)])

NextTwin == TwinRegister \/ TwinClear \/ TwinBackup \/ TwinRestore \/ TwinRead

SpecTwin == InitTwin /\ [][NextTwin]_vars

\* C37: after every sequence of Register, Clear, Backup, Restore and reads, a
\* read of the group that sorts lazily on the first read after a write returns
\* what the read of the group that sorts inside every write returns
C37_LazyEqualsEager ==
  (calc.fn = "twin" /\ calc.out.op = "read") =>
    calc.out.lazyRead = calc.out.eagerRead

\* ------------------------------------------------- the read path and g.mu
\* goroutine t is inside a method of the group
InMethod(t) == pc[t] # "idle"

\* goroutine t holds g.mu, in either mode
HoldsMu(t) == t \in mu.r \/ mu.w = t

\* goroutine t is inside lock() at a call of g.mu that does not return now:
\* Lock waits for every holder, RLock for the writer and, as sync.RWMutex
\* lets no new reader pass a waiting writer, for a goroutine waiting in Lock
Waits(t) ==
  \/ pc[t] = "lock_Lock" /\ ~canLock(mu)
  \/ /\ pc[t] \in {"lock_RLock", "lock_RLock2"}
     /\ ~canRLock(mu) \/ \E u \in Threads : pc[u] = "lock_Lock"

\* the steps of goroutine t inside a method
StepsInside(t) ==
  \/ Recover(t)
  \/ RegisterReturn(t)
  \/ ClearReturn(t)
  \/ BackupReturn(t)
  \/ RestoreReturn(t)
  \/ LockRLock(t)
  \/ LockFor(t)
  \/ LockLock(t)
  \/ LockSort(t)
  \/ LockRelock(t)
  \/ ReadSymbols(t)
  \/ ReadPluginsSymbols(t)
  \/ ReadPluginSymbol(t)
  \/ ReadPlugins(t)
  \/ ReadString(t)
  \/ Unlock(t)

\* C38: a reader asks for the write lock only after it has released its read
\* lock and for the read lock only after it has released the write lock; a
\* goroutine outside the methods holds no lock of the group; and whenever
\* goroutines are inside methods one of them is not waiting for g.mu and can
\* take its next step, so the goroutines are never all blocked
C38_ReadPathDeadlockFree ==
  /\ \A t \in Threads :
       pc[t] \in {"idle", "lock_RLock", "lock_Lock", "lock_RLock2"} => ~HoldsMu(t)
  /\ \A t \in Threads : (InMethod(t) /\ ~Waits(t)) => ENABLED StepsInside(t)
  /\ (\E t \in Threads : InMethod(t)) => \E t \in Threads : InMethod(t) /\ ~Waits(t)
  /\ (\A t \in Threads : ~InMethod(t)) => canLock(mu)

\* C38 witness: both goroutines are readers of an unordered group; one holds
\* the write lock inside the loop of lock(), the other has released its read
\* lock and waits for the write lock
C38_Witness ==
  /\ pc[1] = "lock_sort"
  /\ pc[2] = "lock_Lock"
  /\ mu.w = 1
  /\ ~ordered
  /\ Waits(2)

\* ------------------------------------------------ queries through a handle
\* C39: what PluginNames() returns through a handle New returned is the
\* resolved order of the plugins the group holds, whether they were registered
\* before or after New returned the handle
C39_HandleSeesResolvedOrder ==
  named.last.op = "PluginNames" =>
    \E s \in sortNamed(named.objs[named.last.pg].plugins) :
      named.last.out = pgPluginNames(s)

\* ------------------------------------------------------ the two resolvers
\* both resolvers have run on the list
BothSorted == calc.fn = "sort" /\ calc.pc = "done"

\* C40: on a list of entries with pairwise distinct owners the sort of v0/v2,
\* which slides the elements inline, and the sort of v3, which calls move,
\* leave the same order of owners
C40_ResolversAgree == BothSorted => calc.out.v0 = calc.out.v3

\* C40 witness: b, a and c were registered in this order, a to come after c
\* and c before a; both resolvers slid a behind c and left b, c, a
C40_Witness ==
  /\ BothSorted
  /\ calc.in = << <<(<<"b">>), <<>>>>, <<(<<"a">>), <<">", "c">>>>,
                  <<(<<"c">>), <<"<", "a">>>> >>
  /\ calc.out.v0 = << <<"b">>, <<"c">>, <<"a">> >>
  /\ calc.out.v3 = << <<"b">>, <<"c">>, <<"a">> >>

====
